---------------------------- MODULE Spec2Model ----------------------------
(***************************************************************************)
(* Walk-forward backtesting engine of daily_stock_analysis:                *)
(*   src/modules/backtester.py            backtest_strategy                *)
(*   src/modules/backtester_entry_exit.py backtest_entry_exit              *)
(*                                                                         *)
(* Numbers.  Prices, RSI and EMA values are integers.  HVol and BB_width   *)
(* are held in hundredths (0.05 is 5, 0.30 is 30), so every comparison of  *)
(* the source against one of its thresholds is the same comparison here.   *)
(* NaN and None are two values outside every range a field takes.          *)
(*                                                                         *)
(* The indicator table is not recomputed from the bars: the model keeps    *)
(* len(data) and reveals the rows of the table one simulated day at a      *)
(* time, when the loop reads them (row = data.iloc[i]).  A row of the      *)
(* table after dropna never has NaN in the dropna subset.                  *)
(***************************************************************************)
EXTENDS Integers, Sequences, FiniteSets, TLC

VARIABLES
    fn,             \* the function being run
    ticker,         \* argument
    strategy_name,  \* argument of backtest_strategy / _check_entry_conditions
    lookback_days,  \* argument
    target_dte,     \* argument of backtest_strategy
    max_hold_days,  \* argument of backtest_entry_exit
    pc,             \* position in the function body
    data_len,       \* len(data), of the data frame `data` is bound to now
    i,              \* loop index
    row,            \* data.iloc[i] of the last iteration (prev_row of the next)
    in_trade,       \* in_trade / in_position
    entry_day,
    entry_price,
    entry_sigma,
    hold_days,
    total_signals,
    trades,         \* list of trade dicts
    pnl_calls,      \* arguments of each _simulate_strategy_pnl call made, in order
    opened,         \* number of FLAT -> IN_POSITION transitions taken
    closed,         \* number of IN_POSITION -> FLAT transitions taken
    result,         \* the value returned
    data,           \* the indicator table the loop walks, where it is kept whole
    trail,          \* the position and the trade list after each simulated day
    first,          \* the first call made in this process, once it has returned
    runs,           \* number of calls made in this process
    priced,         \* the Black-Scholes values computed so far, by arguments
    helper          \* the arguments and the locals of a function other than
                    \* the two backtests, called on its own

vars == <<fn, ticker, strategy_name, lookback_days, target_dte, max_hold_days,
          pc, data_len, i, row, in_trade, entry_day, entry_price, entry_sigma,
          hold_days, total_signals, trades, pnl_calls, opened, closed, result,
          data, trail, first, runs, priced, helper>>

---------------------------------------------------------------------------
(* Values                                                                  *)

\* np.nan
NaN == -999
\* Python None: a missing key of row.get, an unset local, a None argument
None == -998

\* None where the code expects a dict, and `if d:` of a dict or None
NoneDict == [is_none |-> TRUE]
TruthyDict(d) == "is_none" \notin DOMAIN d /\ DOMAIN d # {}

IsNaN(v) == v = NaN
\* a float that is present and not NaN
Defined(v) == v # None /\ v # NaN
\* Python truthiness of a float or None: None and 0.0 are falsy, NaN is truthy
Truthy(v) == v # None /\ v # 0
\* row.get(key)
Get(r, key) == IF key \in DOMAIN r THEN r[key] ELSE None

\* float comparisons: any comparison with NaN is False
Lt(a, b) == a # NaN /\ b # NaN /\ a < b
Gt(a, b) == a # NaN /\ b # NaN /\ a > b
Le(a, b) == a # NaN /\ b # NaN /\ a <= b
Ge(a, b) == a # NaN /\ b # NaN /\ a >= b

\* thresholds of the source, HVol and BB_width in hundredths
MinBars == 60
MinRowsAfterWarmup == 20
HVolFloor == 5
DefaultSigma == 30
\* rolling windows of HVol (backtester.py) and of VWAP (backtester_entry_exit.py)
HVolWindow == 20
VwapWindow == 20
\* the other windows of backtester.py: RSI, ATR, SMA_50, Bollinger
RsiPeriod == 14
AtrPeriod == 14
SmaWindow == 50
BbWindow == 20
\* defaults of lookback_days, target_dte and max_hold_days
DefaultLookback == 252
DefaultDte == 30
DefaultMaxHold == 30

OptionStrategies == {"COVERED_CALL", "CASH_SECURED_PUT", "BULL_CALL_SPREAD",
                     "BEAR_CALL_SPREAD", "IRON_CONDOR", "PROTECTIVE_PUT",
                     "LONG_STRADDLE"}

---------------------------------------------------------------------------
(* _check_entry_conditions                                                 *)

\* the three fields every strategy needs: rsi, ema9, ema20
core_missing(r) ==
    \E v \in {Get(r, "RSI"), Get(r, "EMA_9"), Get(r, "EMA_20")} : v = None \/ IsNaN(v)

covered_call_entry(r) ==
    LET sma50 == Get(r, "SMA_50")
    IN  /\ Defined(sma50) /\ Gt(r.Close, sma50)
        /\ 40 <= r.RSI /\ r.RSI <= 60
        /\ r.EMA_9 > r.EMA_20

cash_secured_put_entry(r) ==
    LET hvol == Get(r, "HVol")
    IN  /\ r.RSI < 40
        /\ Defined(hvol) /\ hvol > 30

bull_call_spread_entry(r) ==
    LET vwap == Get(r, "VWAP")
        macd_hist == Get(r, "MACD_hist")
    IN  /\ r.EMA_9 > r.EMA_20
        /\ r.RSI < 65
        /\ Defined(vwap) /\ Gt(r.Close, vwap)
        /\ Defined(macd_hist) /\ macd_hist > 0

bear_call_spread_entry(r) ==
    LET hvol == Get(r, "HVol")
    IN  /\ r.EMA_9 < r.EMA_20
        /\ r.RSI > 65
        /\ Defined(hvol) /\ hvol > 40

\* iron_condor_entry with the HistVol bounds excluded
iron_condor_entry_strict(r) ==
    LET bb_width == Get(r, "BB_width")
        hvol == Get(r, "HVol")
    IN  /\ Defined(bb_width) /\ bb_width < 6
        /\ 40 <= r.RSI /\ r.RSI <= 60
        /\ Defined(hvol) /\ 40 < hvol /\ hvol < 70


iron_condor_entry(r) ==
    LET bb_width == Get(r, "BB_width")
        hvol == Get(r, "HVol")
    IN  /\ Defined(bb_width) /\ bb_width < 6
        /\ 40 <= r.RSI /\ r.RSI <= 60
        /\ Defined(hvol) /\ 40 <= hvol /\ hvol <= 70

protective_put_entry(r) ==
    LET sma50 == Get(r, "SMA_50")
    IN  /\ r.RSI > 60
        /\ Defined(sma50) /\ Gt(r.Close, sma50)

\* long_straddle_entry without the None and NaN guards
long_straddle_entry_unguarded(r) ==
    LET bb_width == Get(r, "BB_width")
        hvol == Get(r, "HVol")
    IN  bb_width < 4 /\ hvol < 50

long_straddle_entry(r) ==
    LET bb_width == Get(r, "BB_width")
        hvol == Get(r, "HVol")
    IN  /\ Defined(bb_width) /\ bb_width < 4
        /\ Defined(hvol) /\ hvol < 50

\* check_entry_conditions with COVERED_CALL's rule for a name it does not know
check_entry_conditions_default(strategy, r, prev_row) ==
    IF core_missing(r)
    THEN FALSE
    ELSE CASE strategy = "CASH_SECURED_PUT" -> cash_secured_put_entry(r)
           [] strategy = "BULL_CALL_SPREAD" -> bull_call_spread_entry(r)
           [] strategy = "BEAR_CALL_SPREAD" -> bear_call_spread_entry(r)
           [] strategy = "IRON_CONDOR" -> iron_condor_entry(r)
           [] strategy = "PROTECTIVE_PUT" -> protective_put_entry(r)
           [] strategy = "LONG_STRADDLE" -> long_straddle_entry(r)
           [] OTHER -> covered_call_entry(r)

check_entry_conditions(strategy, r, prev_row) ==
    IF core_missing(r)
    THEN FALSE
    ELSE CASE strategy = "COVERED_CALL" -> covered_call_entry(r)
           [] strategy = "CASH_SECURED_PUT" -> cash_secured_put_entry(r)
           [] strategy = "BULL_CALL_SPREAD" -> bull_call_spread_entry(r)
           [] strategy = "BEAR_CALL_SPREAD" -> bear_call_spread_entry(r)
           [] strategy = "IRON_CONDOR" -> iron_condor_entry(r)
           [] strategy = "PROTECTIVE_PUT" -> protective_put_entry(r)
           [] strategy = "LONG_STRADDLE" -> long_straddle_entry(r)
           [] OTHER -> FALSE

---------------------------------------------------------------------------
(* _bs_price.  Prices and strikes are integers, T is in days (T * 365),    *)
(* sigma in hundredths.  Past the guard the value is a Black-Scholes       *)
(* premium (log, exp, erf of reals), which the model does not evaluate:    *)
(* `v` is what the formula comes to for these arguments.                   *)

\* `T <= 0 or sigma <= 0 or S <= 0 or K <= 0`
degenerate(S, K, T, sigma) == T <= 0 \/ sigma <= 0 \/ S <= 0 \/ K <= 0

\* Python's max(0, x)
max0(x) == IF x > 0 THEN x ELSE 0

\* intrinsic without the floor at zero
intrinsic_unfloored(S, K, option_type) ==
    IF option_type = "call" THEN S - K ELSE K - S

\* `max(0, S - K) if option_type == "call" else max(0, K - S)`
intrinsic(S, K, option_type) ==
    IF option_type = "call" THEN max0(S - K) ELSE max0(K - S)

bs_price(S, K, T, r, sigma, option_type, v) ==
    IF degenerate(S, K, T, sigma)
    THEN intrinsic(S, K, option_type)
    ELSE v

---------------------------------------------------------------------------
(* Exact arithmetic for the statistics: a rational is [num, den], reduced, *)
(* den > 0.  float("inf") is Inf.                                          *)

Abs(x) == IF x < 0 THEN -x ELSE x

RECURSIVE Gcd(_, _)
Gcd(a, b) == IF b = 0 THEN a ELSE Gcd(b, a % b)

\* n / d, d # 0
Frac(n, d) ==
    LET g == Gcd(Abs(n), Abs(d))
        sgn == IF d < 0 THEN -1 ELSE 1
    IN  [num |-> sgn * (n \div g), den |-> sgn * (d \div g)]

Zero == [num |-> 0, den |-> 1]
Inf == [num |-> 1, den |-> 0]

FracAdd(x, y) == Frac(x.num * y.den + y.num * x.den, x.den * y.den)
FracSub(x, y) == Frac(x.num * y.den - y.num * x.den, x.den * y.den)
\* Python's max(x, y) of two finite floats
FracMax(x, y) == IF y.num * x.den > x.num * y.den THEN y ELSE x
FracDivInt(x, n) == Frac(x.num, x.den * n)
FracMulInt(x, n) == Frac(x.num * n, x.den)

\* the integer nearest n / d (d > 0), ties to the even one
RoundHalfEven(n, d) ==
    LET q == n \div d
        r == n - q * d
    IN  IF 2 * r < d THEN q
        ELSE IF 2 * r > d THEN q + 1
        ELSE IF q % 2 = 0 THEN q ELSE q + 1

\* round(x, 1), round(x, 2), round(x, 0)
Round1(x) == Frac(RoundHalfEven(x.num * 10, x.den), 10)
Round2(x) == Frac(RoundHalfEven(x.num * 100, x.den), 100)
Round0(x) == Frac(RoundHalfEven(x.num, x.den), 1)

RECURSIVE SumInt(_, _)
\* sum of field f of the records of sequence s
SumInt(s, f) == IF s = <<>> THEN 0 ELSE s[1][f] + SumInt(Tail(s), f)

RECURSIVE SumFrac(_, _)
SumFrac(s, f) == IF s = <<>> THEN Zero ELSE FracAdd(s[1][f], SumFrac(Tail(s), f))

SetMax(S) == CHOOSE x \in S : \A y \in S : y <= x
SetMin(S) == CHOOSE x \in S : \A y \in S : x <= y

---------------------------------------------------------------------------
(* _simulate_strategy_pnl                                                  *)
(*                                                                         *)
(* The premiums are Black-Scholes values (log, exp, erf of reals).  The    *)
(* model does not evaluate them: `bs` is the value the pricing of the legs *)
(* comes to for these arguments, drawn by the caller from BsOutcomes.      *)
(* What the function decides itself is modelled: which strategies it       *)
(* prices, and that every other name gets None.                            *)

\* days of the year in `target_dte / 365.0`
DaysPerYear == 365

\* T_entry = target_dte / 365.0
t_entry(dte) == Frac(dte, DaysPerYear)

\* T_exit = max(1 / 365.0, T_entry - (target_dte / 365.0 * 0.6))
t_exit(dte) ==
    FracMax(Frac(1, DaysPerYear),
            FracSub(t_entry(dte), Frac(dte * 6, DaysPerYear * 10)))

\* what the _bs_price calls of one _simulate_strategy_pnl call are made
\* with: the strategy (its strikes are multiples of entry_price), the two
\* stock prices, sigma and the two times to expiry
legs(c) ==
    [strategy |-> c.strategy, entry_price |-> c.entry_price,
     exit_price |-> c.exit_price, sigma |-> c.sigma,
     T_entry |-> t_entry(c.target_dte), T_exit |-> t_exit(c.target_dte)]

\* the strategies whose pnl_pct is `pnl / entry_price * 100` or
\* `pnl / sell_strike * 100` with sell_strike = entry_price; the four others
\* divide by max(net premium, 0.01)
divides_by_entry(strategy) ==
    strategy \in {"COVERED_CALL", "CASH_SECURED_PUT", "PROTECTIVE_PUT"}

\* simulate_strategy_pnl with the branch of COVERED_CALL missing
simulate_strategy_pnl_partial(strategy, entry, exit_price, sigma, dte, bs) ==
    IF strategy \in OptionStrategies \ {"COVERED_CALL"}
    THEN IF divides_by_entry(strategy) /\ entry = 0
         THEN [raised |-> "ZeroDivisionError"]
         ELSE [pnl |-> bs.pnl, pnl_pct |-> bs.pnl_pct]
    ELSE NoneDict

\* entry_price is a Python float: dividing by 0.0 raises
simulate_strategy_pnl(strategy, entry, exit_price, sigma, dte, bs) ==
    IF strategy \in OptionStrategies
    THEN IF divides_by_entry(strategy) /\ entry = 0
         THEN [raised |-> "ZeroDivisionError"]
         ELSE [pnl |-> bs.pnl, pnl_pct |-> bs.pnl_pct]
    ELSE NoneDict

---------------------------------------------------------------------------
(* The locals of a walk-forward loop, as one record                        *)

Locals == [in_trade |-> in_trade, entry_day |-> entry_day,
           entry_price |-> entry_price, entry_sigma |-> entry_sigma,
           hold_days |-> hold_days, total_signals |-> total_signals,
           trades |-> trades, pnl_calls |-> pnl_calls,
           opened |-> opened, closed |-> closed, raised |-> "no"]

\* InitialLocals with the trade list of the call before left in place
InitialLocals_stale ==
    [in_trade |-> FALSE, entry_day |-> None, entry_price |-> None,
     entry_sigma |-> None, hold_days |-> 0, total_signals |-> 0,
     trades |-> trades, pnl_calls |-> <<>>,
     opened |-> 0, closed |-> 0, raised |-> "no"]

\* backtester.py:317-323, backtester_entry_exit.py:76-79
InitialLocals == [in_trade |-> FALSE, entry_day |-> None, entry_price |-> None,
                  entry_sigma |-> None, hold_days |-> 0, total_signals |-> 0,
                  trades |-> <<>>, pnl_calls |-> <<>>,
                  opened |-> 0, closed |-> 0, raised |-> "no"]

\* hold_after with the increment left out
hold_after_same(hold) == hold

\* `hold_days += 1`, the first statement of a day with a position open
hold_after(hold) == hold + 1

\* is_flat with the guard lost: an entry is looked for on every day
is_flat_always(s) == TRUE

\* `if not in_trade:` / `if not in_position:`
is_flat(s) == ~s.in_trade

---------------------------------------------------------------------------
(* backtest_strategy: one iteration of the walk-forward loop               *)

\* sigma = float(row["HVol"]) if not np.isnan(row["HVol"]) else 0.30
sigma_of(r) == IF ~IsNaN(r.HVol) THEN r.HVol ELSE DefaultSigma

\* vol_ok with >= for >
vol_ok_ge(sigma) == sigma >= HVolFloor

\* `if sigma > 0.05:`
vol_ok(sigma) == sigma > HVolFloor

\* reversal_exit with the bullish and the bearish tests exchanged
reversal_exit_swapped(strategy, r) ==
    IF strategy \in {"BEAR_CALL_SPREAD"}
    THEN Truthy(Get(r, "RSI")) /\ ~IsNaN(r.RSI) /\ r.RSI > 70
    ELSE IF strategy \in {"BULL_CALL_SPREAD", "COVERED_CALL"}
    THEN Truthy(Get(r, "RSI")) /\ ~IsNaN(r.RSI) /\ r.RSI < 35
    ELSE FALSE

\* reversal_exit with the RSI > 70 rule applied to every strategy but
\* BEAR_CALL_SPREAD
reversal_exit_all(strategy, r) ==
    IF strategy \in {"BEAR_CALL_SPREAD"}
    THEN Truthy(Get(r, "RSI")) /\ ~IsNaN(r.RSI) /\ r.RSI < 35
    ELSE Truthy(Get(r, "RSI")) /\ ~IsNaN(r.RSI) /\ r.RSI > 70

\* the condition-reversal exits
reversal_exit(strategy, r) ==
    IF strategy \in {"BULL_CALL_SPREAD", "COVERED_CALL"}
    THEN Truthy(Get(r, "RSI")) /\ ~IsNaN(r.RSI) /\ r.RSI > 70
    ELSE IF strategy \in {"BEAR_CALL_SPREAD"}
    THEN Truthy(Get(r, "RSI")) /\ ~IsNaN(r.RSI) /\ r.RSI < 35
    ELSE FALSE

\* should_exit with > for >= on the holding limit
should_exit_late(strategy, hold, dte, r) ==
    hold > dte \/ reversal_exit(strategy, r)

\* should_exit, once hold_days has been incremented
should_exit(strategy, hold, dte, r) ==
    hold >= dte \/ reversal_exit(strategy, r)

\* pnl_call with the days left to expiry passed for target_dte
pnl_call_remaining(strategy, entry, price, sigma, dte, hold) ==
    [strategy |-> strategy, entry_price |-> entry, exit_price |-> price,
     sigma |-> sigma, target_dte |-> dte - hold]

\* the arguments of `_simulate_strategy_pnl(strategy_name, entry_price, price,
\* entry_sigma, target_dte=target_dte)`, made where hold_days is a local
pnl_call(strategy, entry, price, sigma, dte, hold) ==
    [strategy |-> strategy, entry_price |-> entry, exit_price |-> price,
     sigma |-> sigma, target_dte |-> dte]

\* the trade dict appended on exit
strategy_trade(s, hold, price, res) ==
    [entry_price |-> s.entry_price, exit_price |-> price, hold_days |-> hold,
     pnl |-> res.pnl, pnl_pct |-> res.pnl_pct]

\* the body of `for i in range(1, len(data))` for index k
strategy_day(s, strategy, dte, k, r, prev_row, bs) ==
    LET price == r.Close
    IN  IF is_flat(s)
        THEN IF check_entry_conditions(strategy, r, prev_row)
             THEN LET sigma == sigma_of(r)
                      counted == [s EXCEPT !.total_signals = @ + 1]
                  IN  IF vol_ok(sigma)
                      THEN [counted EXCEPT !.in_trade = TRUE, !.entry_day = k,
                                           !.entry_price = price,
                                           !.entry_sigma = sigma,
                                           !.hold_days = 0, !.opened = @ + 1]
                      ELSE counted
             ELSE s
        ELSE LET hold == hold_after(s.hold_days)
                 held == [s EXCEPT !.hold_days = hold]
             IN  IF dte = None
                 THEN [held EXCEPT !.raised = "TypeError"]
                 ELSE IF should_exit(strategy, hold, dte, r)
                 THEN LET call == pnl_call(strategy, s.entry_price, price,
                                           s.entry_sigma, dte, hold)
                          res == simulate_strategy_pnl(
                                     call.strategy, call.entry_price,
                                     call.exit_price, call.sigma,
                                     call.target_dte, bs)
                      IN  IF "raised" \in DOMAIN res
                          THEN [held EXCEPT !.pnl_calls = Append(@, call),
                                            !.raised = res.raised]
                          ELSE
                          [held EXCEPT
                             !.pnl_calls = Append(@, call),
                             !.trades = IF TruthyDict(res)
                                        THEN Append(@, strategy_trade(s, hold, price, res))
                                        ELSE @,
                             !.in_trade = FALSE, !.closed = @ + 1]
                 ELSE held

---------------------------------------------------------------------------
(* backtest_entry_exit: one iteration of the walk-forward loop             *)

\* ema_crossover_up with <= for < on the previous day
ema_crossover_up_le(r, prev) == Le(prev.EMA_9, prev.EMA_20) /\ Gt(r.EMA_9, r.EMA_20)

\* ema_crossover_up, ema_crossover_down
ema_crossover_up(r, prev) == Lt(prev.EMA_9, prev.EMA_20) /\ Gt(r.EMA_9, r.EMA_20)
ema_crossover_down(r, prev) == Gt(prev.EMA_9, prev.EMA_20) /\ Lt(r.EMA_9, r.EMA_20)

entry_signal(r, prev) ==
    Lt(r.RSI, 35) /\ Lt(r.Close, r.VWAP) /\ ema_crossover_up(r, prev)

exit_signal(r, prev) ==
    Gt(r.RSI, 65) /\ Gt(r.Close, r.VWAP) /\ ema_crossover_down(r, prev)

\* hold_limit with > for >=
hold_limit_late(hold, max_hold) == hold > max_hold

\* `hold_days >= max_hold_days`
hold_limit(hold, max_hold) == hold >= max_hold

\* "signal" if exit_signal else "max_hold"
exit_reason(sig) == IF sig THEN "signal" ELSE "max_hold"

entry_exit_day(s, max_hold, r, prev) ==
    LET price == r.Close
    IN  IF IsNaN(r.RSI) \/ IsNaN(r.VWAP) \/ IsNaN(r.EMA_9)
        THEN s
        ELSE IF is_flat(s)
        THEN IF entry_signal(r, prev)
             THEN [s EXCEPT !.in_trade = TRUE, !.entry_price = price,
                            !.hold_days = 0, !.opened = @ + 1]
             ELSE s
        ELSE LET hold == hold_after(s.hold_days)
                 held == [s EXCEPT !.hold_days = hold]
                 sig == exit_signal(r, prev)
             IN  IF ~sig /\ max_hold = None
                 THEN [held EXCEPT !.raised = "TypeError"]
                 ELSE IF sig \/ hold_limit(hold, max_hold)
                 THEN IF s.entry_price = 0
                      THEN [held EXCEPT !.raised = "ZeroDivisionError"]
                      ELSE LET pnl == price - s.entry_price
                           IN  [held EXCEPT
                                  !.trades = Append(@,
                                     [entry_price |-> s.entry_price,
                                      exit_price |-> price,
                                      hold_days |-> hold,
                                      pnl |-> pnl,
                                      pnl_pct |-> Frac(pnl * 100, s.entry_price),
                                      exit_reason |-> exit_reason(sig)]),
                                  !.in_trade = FALSE, !.closed = @ + 1]
                 ELSE held

---------------------------------------------------------------------------
(* Aggregation: backtester.py:369-414, backtester_entry_exit.py:123-171    *)

\* Wins with a trade of pnl 0 taken for a win
Wins_ge(ts) == SelectSeq(ts, LAMBDA t : t.pnl >= 0)

Wins(ts) == SelectSeq(ts, LAMBDA t : t.pnl > 0)
Losses(ts) == SelectSeq(ts, LAMBDA t : t.pnl <= 0)

\* np.cumsum([t["pnl"] for t in trades])[k]
CumPnl(ts, k) == SumInt(SubSeq(ts, 1, k), "pnl")
\* RunningMax with the peak of the whole sequence
RunningMax_total(ts, k) == SetMax({CumPnl(ts, j) : j \in 1..Len(ts)})

\* np.maximum.accumulate(cum_pnl)[k]
RunningMax(ts, k) == SetMax({CumPnl(ts, j) : j \in 1..k})
\* MaxDd with the zero starting balance as the first peak
MaxDd_from_zero(ts) ==
    SetMin({CumPnl(ts, k) - SetMax({0, RunningMax(ts, k)}) : k \in 1..Len(ts)})

\* float(np.min(cum_pnl - running_max))
MaxDd(ts) == SetMin({CumPnl(ts, k) - RunningMax(ts, k) : k \in 1..Len(ts)})

\* f"{data.index[0]...} to {data.index[-1]...}"
Period(n) == [first |-> 0, last |-> n - 1]

NoTradesNote(f) ==
    IF f = "backtest_strategy"
    THEN "No trades triggered during lookback period"
    ELSE "No entry signals triggered during lookback period"

TradesNote(f) ==
    IF f = "backtest_strategy"
    THEN "Simulated via Black-Scholes (estimated premiums, ~70-80% accuracy vs real)"
    ELSE "Walk-forward backtest of RSI/VWAP/EMA crossover signals"

\* the keys both functions return
Statistics(f, t, strategy, n, signals, ts) ==
    LET wins == Wins(ts)
        losses == Losses(ts)
        gross_profit == IF wins # <<>> THEN SumInt(wins, "pnl") ELSE 0
        gross_loss == IF losses # <<>> THEN Abs(SumInt(losses, "pnl")) ELSE 0
        max_dd_pct == Frac(MaxDd(ts) * 100, ts[1].entry_price)
        hold == [k \in 1..Len(ts) |-> [h |-> Frac(ts[k].hold_days, 1)]]
    IN  [ticker |-> t,
         strategy |-> strategy,
         period |-> Period(n),
         total_signals |-> signals,
         trades_taken |-> Len(ts),
         wins |-> Len(wins),
         losses |-> Len(losses),
         win_rate |-> Frac(Len(wins), Len(ts)),
         avg_return_pct |-> Round1(FracDivInt(SumFrac(ts, "pnl_pct"), Len(ts))),
         max_drawdown_pct |-> Round1(max_dd_pct),
         profit_factor |-> IF gross_loss > 0
                           THEN Round2(Frac(gross_profit, gross_loss))
                           ELSE Inf,
         avg_holding_days |-> Round0(FracDivInt(SumFrac(hold, "h"), Len(ts))),
         note |-> TradesNote(f)]

\* NoTrades with the profit factor of the general case
NoTrades_inf(f, t, strategy, n, signals) ==
    [ticker |-> t, strategy |-> strategy, period |-> Period(n),
     total_signals |-> signals, trades_taken |-> 0, wins |-> 0, losses |-> 0,
     win_rate |-> Zero, avg_return_pct |-> Zero, max_drawdown_pct |-> Zero,
     profit_factor |-> Inf, avg_holding_days |-> Zero,
     note |-> NoTradesNote(f)]

NoTrades(f, t, strategy, n, signals) ==
    [ticker |-> t, strategy |-> strategy, period |-> Period(n),
     total_signals |-> signals, trades_taken |-> 0, wins |-> 0, losses |-> 0,
     win_rate |-> Zero, avg_return_pct |-> Zero, max_drawdown_pct |-> Zero,
     profit_factor |-> Zero, avg_holding_days |-> Zero,
     note |-> NoTradesNote(f)]

Count(ts, reason) == Len(SelectSeq(ts, LAMBDA t : t.exit_reason = reason))

\* what the code after the loop evaluates to: a result dict, or the exception
aggregate(f, t, strategy, n, signals, ts) ==
    IF n = 0
    THEN [raised |-> "IndexError"]
    ELSE IF ts = <<>>
    THEN NoTrades(f, t, strategy, n, IF f = "backtest_strategy" THEN signals ELSE 0)
    ELSE IF ts[1].entry_price = 0
    THEN [raised |-> "ZeroDivisionError"]
    ELSE IF f = "backtest_strategy"
    THEN Statistics(f, t, strategy, n, signals, ts)
    ELSE [k \in {"signal_exits", "timeout_exits"} |->
             IF k = "signal_exits" THEN Count(ts, "signal") ELSE Count(ts, "max_hold")]
         @@ Statistics(f, t, "ENTRY_EXIT_SIGNALS", n, Len(ts), ts)

\* handle_exception without the handler: the exception leaves the function
handle_exception_none(f, e, t, strategy) == [raised |-> e]

\* the `except Exception as e:` handlers
handle_exception(f, e, t, strategy) ==
    IF f = "backtest_strategy"
    THEN [error |-> <<e>>, ticker |-> t, strategy |-> strategy]
    ELSE [error |-> <<e>>, ticker |-> t]

\* the two early returns
too_few_bars(f, n, t) ==
    IF f = "backtest_strategy"
    THEN [error |-> <<"Insufficient data", " for backtest (", n, " rows)">>, ticker |-> t]
    ELSE [error |-> <<"Insufficient data", " (", n, " rows)">>, ticker |-> t]

too_few_rows(f, t) ==
    IF f = "backtest_strategy"
    THEN [error |-> <<"Insufficient data", " after indicator warmup">>, ticker |-> t]
    ELSE [error |-> <<"Insufficient data", " after warmup">>, ticker |-> t]

\* insufficient_bars with the 50 of get_technical_indicators for the 60
insufficient_bars_50(n) == n = 0 \/ n < 50

\* `data.empty or len(data) < 60`
insufficient_bars(n) == n = 0 \/ n < MinBars
\* `len(data) < 20`
insufficient_rows(n) == n < MinRowsAfterWarmup

\* len(data) after `if len(data) > lookback_days: data = data.iloc[-lookback_days:]`
window_len(n, lookback) ==
    IF n > lookback
    THEN IF lookback > 0 THEN lookback
         ELSE IF lookback = 0 THEN n
         ELSE IF -lookback < n THEN n + lookback ELSE 0
    ELSE n

---------------------------------------------------------------------------
(* Inputs.  Closes are positive (share prices); an argument is an integer  *)
(* in its range or None, the value of the wrong type that makes the first  *)
(* comparison with it raise TypeError.  lookback_days stays below the 20   *)
(* rows the warm-up check leaves, so the window has lookback_days rows.    *)

MaxBars == 61        \* most bars a fetch returns
MaxLookback == 4     \* largest lookback_days
MaxDte == 2          \* largest target_dte
MaxHold == 2         \* largest max_hold_days

\* len(data) of the fetched frame: empty, short, and around the 60 of the check
FetchedLens == {0, 10, MinBars - 1, MinBars, MaxBars}
Tickers == {"AAPL"}
\* the seven names, the label of the other backtest, and a misspelt name
StrategyNames == OptionStrategies \cup {"ENTRY_EXIT_SIGNALS", "COVERED_CAL"}
LookbackValues == (1..MaxLookback) \cup {None}
DteValues == (0..MaxDte) \cup {None}
MaxHoldValues == (0..MaxHold) \cup {None}

\* rows of backtest_strategy's table after dropna: RSI, EMA_9, EMA_20 and HVol
\* are never NaN
StrategyRows ==
    [Close : {100, 110}, RSI : {0, 34, 35, 50, 70, 71},
     EMA_9 : {1, 3}, EMA_20 : {2}, SMA_50 : {90}, BB_width : {3},
     HVol : {45}, VWAP : {90}, MACD_hist : {1}]
    \cup
    [Close : {100}, RSI : {34, 50, 71},
     EMA_9 : {1, 3}, EMA_20 : {2}, SMA_50 : {90}, BB_width : {3},
     HVol : {5}, VWAP : {90}, MACD_hist : {1}]

\* rows of backtest_entry_exit's table after dropna: RSI, EMA_9, EMA_20 and VWAP
\* are never NaN
EntryExitRows ==
    [Close : {100, 105, 110}, RSI : {34, 35, 65, 66},
     EMA_9 : {1, 2, 3}, EMA_20 : {2}, VWAP : {105}]

RowsOf(f) == IF f = "backtest_strategy" THEN StrategyRows ELSE EntryExitRows

\* what the Black-Scholes legs of a closed trade come to: a loss, nothing, a gain
BsOutcomes == {[pnl |-> -3, pnl_pct |-> Frac(-15, 1)],
               [pnl |-> 0, pnl_pct |-> Zero],
               [pnl |-> 4, pnl_pct |-> Frac(20, 1)]}

\* the legs are priced only on a day backtest_strategy holds a position
BsOf(f, holding) ==
    IF f = "backtest_strategy" /\ holding
    THEN BsOutcomes
    ELSE {[pnl |-> 0, pnl_pct |-> Zero]}

\* rows that dropna removes at least: the warm-up of the longest window in
\* the dropna subset (HVol: 20 returns; VWAP: 20 bars, the first at index 19)
WarmupRows(f) == IF f = "backtest_strategy" THEN HVolWindow ELSE VwapWindow - 1

NoResult == [pending |-> TRUE]
NoRow == [none |-> TRUE]
NoFirst == [none |-> TRUE]
\* no helper function is called on its own
NoHelper == [none |-> TRUE]
\* nothing priced yet
NoPrices == [c \in {} |-> Zero]

---------------------------------------------------------------------------
(* The two backtests                                                       *)

Backtests == {"backtest_strategy", "backtest_entry_exit"}

Init ==
    /\ fn \in Backtests
    /\ ticker \in Tickers
    /\ lookback_days \in LookbackValues
    /\ \/ /\ fn = "backtest_strategy"
          /\ strategy_name \in StrategyNames
          /\ target_dte \in DteValues
          /\ max_hold_days = DefaultMaxHold
       \/ /\ fn = "backtest_entry_exit"
          /\ strategy_name = "ENTRY_EXIT_SIGNALS"
          /\ target_dte = DefaultDte
          /\ max_hold_days \in MaxHoldValues
    /\ pc = "start"
    /\ data_len = 0
    /\ i = 0
    /\ row = NoRow
    /\ in_trade = FALSE
    /\ entry_day = None
    /\ entry_price = None
    /\ entry_sigma = None
    /\ hold_days = 0
    /\ total_signals = 0
    /\ trades = <<>>
    /\ pnl_calls = <<>>
    /\ opened = 0
    /\ closed = 0
    /\ result = NoResult
    /\ data = <<>>
    /\ trail = <<>>
    /\ first = NoFirst
    /\ runs = 1
    /\ priced = NoPrices
    /\ helper = NoHelper

Args == <<fn, ticker, strategy_name, lookback_days, target_dte, max_hold_days,
         helper>>
LoopVars == <<in_trade, entry_day, entry_price, entry_sigma, hold_days,
              total_signals, trades, pnl_calls, opened, closed>>
\* what only a process making several calls on whole tables keeps
Repeat == <<data, trail, first, runs, priced>>

SetLocals(s) ==
    /\ in_trade' = s.in_trade
    /\ entry_day' = s.entry_day
    /\ entry_price' = s.entry_price
    /\ entry_sigma' = s.entry_sigma
    /\ hold_days' = s.hold_days
    /\ total_signals' = s.total_signals
    /\ trades' = s.trades
    /\ pnl_calls' = s.pnl_calls
    /\ opened' = s.opened
    /\ closed' = s.closed

\* `return value`, or an exception reaching the handler
Return(value) ==
    /\ pc' = "done"
    /\ result' = IF "raised" \in DOMAIN value
                 THEN handle_exception(fn, value.raised, ticker, strategy_name)
                 ELSE value

\* from technical import _fetch_ohlcv; data = _fetch_ohlcv(...)
Fetch ==
    /\ pc = "start"
    /\ \/ \E n \in FetchedLens :
            /\ data_len' = n
            /\ pc' = "fetched"
            /\ UNCHANGED result
       \/ /\ Return([raised |-> "ImportError"])
          /\ UNCHANGED data_len
    /\ UNCHANGED <<Args, i, row, LoopVars, Repeat>>

\* if data.empty or len(data) < 60: return {"error": ...}
CheckFetched ==
    /\ pc = "fetched"
    /\ IF insufficient_bars(data_len)
       THEN Return(too_few_bars(fn, data_len, ticker))
       ELSE pc' = "indicators" /\ UNCHANGED result
    /\ UNCHANGED <<Args, data_len, i, row, LoopVars, Repeat>>

\* the indicator columns, dropna, and the check of what is left
DropWarmup ==
    /\ pc = "indicators"
    /\ \E dropped \in WarmupRows(fn)..data_len :
          /\ data_len' = data_len - dropped
          /\ IF insufficient_rows(data_len')
             THEN Return(too_few_rows(fn, ticker))
             ELSE pc' = "lookback" /\ UNCHANGED result
    /\ UNCHANGED <<Args, i, row, LoopVars, Repeat>>

\* the lookback window and the initial values of the loop's locals
LimitLookback ==
    /\ pc = "lookback"
    /\ IF lookback_days = None
       THEN /\ Return([raised |-> "TypeError"])
            /\ UNCHANGED <<data_len, i, row, LoopVars>>
       ELSE /\ data_len' = window_len(data_len, lookback_days)
            /\ SetLocals(InitialLocals)
            /\ i' = 1
            /\ row' \in RowsOf(fn)
            /\ pc' = "loop"
            /\ UNCHANGED result
    /\ UNCHANGED <<Args, Repeat>>

\* one iteration of `for i in range(1, len(data))`
DayStep(r, prev_row, bs) ==
    LET s == IF fn = "backtest_strategy"
             THEN strategy_day(Locals, strategy_name, target_dte, i, r, prev_row, bs)
             ELSE entry_exit_day(Locals, max_hold_days, r, prev_row)
    IN  /\ SetLocals(s)
        /\ row' = r
        /\ IF s.raised # "no"
           THEN Return([raised |-> s.raised]) /\ UNCHANGED i
           ELSE i' = i + 1 /\ UNCHANGED <<pc, result>>

Day ==
    /\ pc = "loop"
    /\ i < data_len
    /\ \E r \in RowsOf(fn), bs \in BsOf(fn, in_trade) : DayStep(r, row, bs)
    /\ UNCHANGED <<Args, data_len, Repeat>>

\* the code after the loop
Aggregate ==
    /\ pc = "loop"
    /\ i >= data_len
    /\ Return(aggregate(fn, ticker, strategy_name, data_len, total_signals, trades))
    /\ UNCHANGED <<Args, data_len, i, row, LoopVars, Repeat>>

Next == Fetch \/ CheckFetched \/ DropWarmup \/ LimitLookback \/ Day \/ Aggregate

Spec == Init /\ [][Next]_vars

---------------------------------------------------------------------------
(* _check_entry_conditions on its own: a strategy and a row with every     *)
(* field defined, the values on both sides of each threshold               *)

EntryRows ==
    [Close : {100}, RSI : {39, 40, 41, 59, 60, 61, 64, 65, 66},
     EMA_9 : {1, 2, 3}, EMA_20 : {2}, SMA_50 : {99, 100, 101},
     BB_width : {3, 4, 5, 6}, HVol : {30, 31, 40, 41, 49, 50, 70, 71},
     VWAP : {99, 100}, MACD_hist : {0, 1}]

\* a row with the keys holding None taken out: row.get of them is None
Strip(r) == [k \in {f \in DOMAIN r : r[f] # None} |-> r[k]]

\* rows on which each strategy's clauses hold, and the same rows with any of
\* the fields NaN or missing; Close is a column of every row, a number or NaN
MissingRows ==
    {Strip(r) : r \in
        [Close : {100, NaN}, RSI : {30, 50, 70, NaN, None},
         EMA_9 : {1, 3, NaN, None}, EMA_20 : {2, NaN, None},
         SMA_50 : {90, NaN, None}, BB_width : {3, NaN, None},
         HVol : {45, NaN, None}, VWAP : {90, NaN, None},
         MACD_hist : {1, NaN, None}]}

\* a call _check_entry_conditions(strategy_name, row, prev_row)
EntryCall(rows) ==
    /\ fn = "_check_entry_conditions"
    /\ ticker = "AAPL"
    /\ strategy_name \in OptionStrategies
    /\ row \in rows
    /\ lookback_days = None
    /\ target_dte = None
    /\ max_hold_days = None
    /\ pc = "start"
    /\ data_len = 0
    /\ i = 0
    /\ in_trade = FALSE
    /\ entry_day = None
    /\ entry_price = None
    /\ entry_sigma = None
    /\ hold_days = 0
    /\ total_signals = 0
    /\ trades = <<>>
    /\ pnl_calls = <<>>
    /\ opened = 0
    /\ closed = 0
    /\ result = NoResult
    /\ data = <<>>
    /\ trail = <<>>
    /\ first = NoFirst
    /\ runs = 1
    /\ priced = NoPrices
    /\ helper = NoHelper

InitEntry == EntryCall(EntryRows)

InitMissing == EntryCall(MissingRows)

CheckEntry ==
    /\ fn = "_check_entry_conditions"
    /\ pc = "start"
    /\ pc' = "done"
    /\ result' = [value |-> check_entry_conditions(strategy_name, row, row)]
    /\ UNCHANGED <<Args, data_len, i, row, LoopVars, Repeat>>

NextEntry == CheckEntry

SpecEntry == InitEntry /\ [][NextEntry]_vars

\* the same call on rows with fields NaN or missing
SpecMissing == InitMissing /\ [][NextEntry]_vars

---------------------------------------------------------------------------
(* _bs_price on its own: arguments on both sides of each test of the guard *)

\* the risk-free rate _simulate_strategy_pnl passes, in hundredths
RiskFree == 5

PriceArgs ==
    [S : {-10, 0, 100, 110}, K : {-10, 0, 100, 110}, T : {-1, 0, 30},
     r : {RiskFree}, sigma : {-5, 0, 45}, option_type : {"call", "put"}]

\* premiums the formula comes to, in hundredths of a dollar
BsValues == {1, 250, 1200}

InitPrice ==
    /\ fn = "_bs_price"
    /\ helper \in PriceArgs
    /\ ticker = "AAPL"
    /\ strategy_name = "COVERED_CALL"
    /\ row = NoRow
    /\ lookback_days = None
    /\ target_dte = None
    /\ max_hold_days = None
    /\ pc = "start"
    /\ data_len = 0
    /\ i = 0
    /\ in_trade = FALSE
    /\ entry_day = None
    /\ entry_price = None
    /\ entry_sigma = None
    /\ hold_days = 0
    /\ total_signals = 0
    /\ trades = <<>>
    /\ pnl_calls = <<>>
    /\ opened = 0
    /\ closed = 0
    /\ result = NoResult
    /\ data = <<>>
    /\ trail = <<>>
    /\ first = NoFirst
    /\ runs = 1
    /\ priced = NoPrices

\* the call _bs_price(S, K, T, r, sigma, option_type)
Price ==
    /\ fn = "_bs_price"
    /\ pc = "start"
    /\ pc' = "done"
    /\ \E v \in BsValues :
          result' = [value |-> bs_price(helper.S, helper.K, helper.T, helper.r,
                                        helper.sigma, helper.option_type, v)]
    /\ UNCHANGED <<Args, data_len, i, row, LoopVars, Repeat>>

NextPrice == Price

SpecPrice == InitPrice /\ [][NextPrice]_vars

---------------------------------------------------------------------------
(* main1.run.  What each ticker's analysis steps return is not modelled:   *)
(* a step returns or raises, strategy_recs is truthy or not.  The calls    *)
(* of summarize_insights (the GPT summary), of send_email and of the two   *)
(* backtests are counted.  `tickers_is_none` says the argument tickers is  *)
(* None, and the list comes from get_watchlist_from_key_vault().           *)

MaxTickers == 2      \* longest ticker list

Watchlists == {<<>>} \cup UNION {[1..n -> {"AAPL", "MSFT"}] : n \in 1..MaxTickers}

\* send_email_flag without the override of backtest_only
email_flag_kept(send_email_flag, backtest_only) == send_email_flag

\* `if backtest_only: send_email_flag = False`
email_flag(send_email_flag, backtest_only) ==
    IF backtest_only THEN FALSE ELSE send_email_flag

\* `if backtest_only: summary_text = ... else: summary_text = summarize_insights(...)`
summary_requested(backtest_only) == ~backtest_only

\* `if (backtest or backtest_only) and strategy_recs:`
backtests_run(backtest, backtest_only, strategy_recs) ==
    (backtest \/ backtest_only) /\ strategy_recs

InitRun ==
    /\ fn = "run"
    /\ \E tickers \in Watchlists, tickers_is_none \in BOOLEAN,
          send_email_flag \in BOOLEAN, output_format \in {"html", "json"},
          backtest \in BOOLEAN, backtest_only \in BOOLEAN :
          /\ tickers_is_none => tickers = <<>>
          /\ helper =
                   [tickers |-> tickers, tickers_is_none |-> tickers_is_none,
                    send_email_flag |-> send_email_flag,
                    output_format |-> output_format, backtest |-> backtest,
                    backtest_only |-> backtest_only, summaries |-> <<>>,
                    summarized |-> 0, backtested |-> 0, sent |-> 0]
    /\ ticker = "AAPL"
    /\ strategy_name = "COVERED_CALL"
    /\ row = NoRow
    /\ lookback_days = None
    /\ target_dte = None
    /\ max_hold_days = None
    /\ pc = "start"
    /\ data_len = 0
    /\ i = 0
    /\ in_trade = FALSE
    /\ entry_day = None
    /\ entry_price = None
    /\ entry_sigma = None
    /\ hold_days = 0
    /\ total_signals = 0
    /\ trades = <<>>
    /\ pnl_calls = <<>>
    /\ opened = 0
    /\ closed = 0
    /\ result = NoResult
    /\ data = <<>>
    /\ trail = <<>>
    /\ first = NoFirst
    /\ runs = 1
    /\ priced = NoPrices

RunFrame == <<fn, ticker, strategy_name, lookback_days, target_dte,
              max_hold_days, data_len, i, row, LoopVars, Repeat>>

\* lines 128-139: the override, the watchlist, the empty list
RunStart ==
    /\ fn = "run"
    /\ pc = "start"
    /\ \E watchlist \in Watchlists :
          LET tickers == IF helper.tickers_is_none THEN watchlist ELSE helper.tickers
              flag == email_flag(helper.send_email_flag, helper.backtest_only)
          IN  /\ helper' = [helper EXCEPT !.tickers = tickers,
                                           !.send_email_flag = flag]
              /\ IF tickers = <<>>
                 THEN pc' = "done" /\ result' = [value |-> None]
                 ELSE pc' = "tickers" /\ UNCHANGED result
    /\ UNCHANGED RunFrame

\* one iteration of `for ticker in tickers:`; `reached` is how far the body
\* gets before a step raises
RunTicker ==
    /\ fn = "run"
    /\ pc = "tickers"
    /\ Len(helper.summaries) < Len(helper.tickers)
    /\ \E reached \in {"fundamentals", "summary", "end"}, strategy_recs \in BOOLEAN :
          LET tkr == helper.tickers[Len(helper.summaries) + 1]
              tested == reached # "fundamentals"
                        /\ backtests_run(helper.backtest, helper.backtest_only,
                                         strategy_recs)
              asked == reached # "fundamentals"
                       /\ summary_requested(helper.backtest_only)
              text == IF reached = "fundamentals" \/ (asked /\ reached = "summary")
                      THEN "Error processing"
                      ELSE IF asked THEN "summary" ELSE "GPT summary skipped"
          IN  helper' = [helper EXCEPT
                           !.summaries = Append(@, [ticker |-> tkr, summary |-> text]),
                           !.backtested = IF tested THEN @ + 1 ELSE @,
                           !.summarized = IF asked THEN @ + 1 ELSE @]
    /\ UNCHANGED <<pc, result, RunFrame>>

\* lines 262-294: the output, and the email
RunOutput ==
    /\ fn = "run"
    /\ pc = "tickers"
    /\ Len(helper.summaries) = Len(helper.tickers)
    /\ helper' = [helper EXCEPT !.sent = IF helper.send_email_flag THEN @ + 1 ELSE @]
    /\ pc' = "done"
    /\ result' = [value |-> helper.output_format]
    /\ UNCHANGED RunFrame

NextRun == RunStart \/ RunTicker \/ RunOutput

SpecRun == InitRun /\ [][NextRun]_vars

---------------------------------------------------------------------------
(* A process that calls the backtests several times.  Here the indicator   *)
(* table of a call is kept whole: `data` holds what the fetch and the      *)
(* indicator columns come to (the bars fetched, the rows dropna removes,   *)
(* the rows of the lookback window), and the loop reads data.iloc[i] and   *)
(* data.iloc[i - 1] from it.  Black-Scholes is a function of its           *)
(* arguments: a value computed once is the value of every later call with  *)
(* the same arguments.                                                     *)

MaxRuns == 3         \* most calls of one process

\* rows of a table: for backtest_strategy one on which COVERED_CALL's clauses
\* hold and one with RSI above 70; for backtest_entry_exit one with the entry
\* signal's values and one with the exit signal's
TableRows(f) ==
    IF f = "backtest_strategy"
    THEN {r \in StrategyRows :
            /\ r.HVol = 45 /\ r.EMA_9 = 3
            /\ <<r.Close, r.RSI>> \in {<<100, 50>>, <<110, 71>>}}
    ELSE {r \in EntryExitRows :
            <<r.Close, r.RSI, r.EMA_9>> \in {<<100, 34, 3>>, <<110, 66, 1>>}}

\* the calls a process makes
RepeatCalls ==
    [fn : {"backtest_strategy"}, ticker : Tickers,
     strategy_name : {"COVERED_CALL", "PROTECTIVE_PUT"},
     lookback_days : {MaxLookback - 1}, target_dte : {MaxDte},
     max_hold_days : {DefaultMaxHold}]
    \cup
    [fn : {"backtest_entry_exit"}, ticker : Tickers,
     strategy_name : {"ENTRY_EXIT_SIGNALS"},
     lookback_days : {MaxLookback - 1}, target_dte : {DefaultDte},
     max_hold_days : {MaxHold}]

\* the series a fetch returns, as far as the call depends on it: too few
\* bars, too few rows after dropna, or a table of lookback rows
SeriesOf(f, lookback, rows) ==
    {[n |-> 10, dropped |-> WarmupRows(f), rows |-> <<>>],
     [n |-> MaxBars, dropped |-> MaxBars - (MinRowsAfterWarmup - 1), rows |-> <<>>]}
    \cup
    {[n |-> MaxBars, dropped |-> WarmupRows(f), rows |-> t] :
        t \in [1..lookback -> rows]}

\* what a closed trade's legs come to, where the values are remembered
TablePrices == {b \in BsOutcomes : b.pnl # 0}

\* data.iloc[k] reading the next row instead
row_at_ahead(tbl, k) == IF k + 2 <= Len(tbl) THEN tbl[k + 2] ELSE tbl[k + 1]

\* data.iloc[k]
row_at(tbl, k) == tbl[k + 1]

CallArgs ==
    [fn |-> fn, ticker |-> ticker, strategy_name |-> strategy_name,
     lookback_days |-> lookback_days, target_dte |-> target_dte,
     max_hold_days |-> max_hold_days]

InitRepeat ==
    /\ \E c \in RepeatCalls :
          /\ fn = c.fn
          /\ ticker = c.ticker
          /\ strategy_name = c.strategy_name
          /\ lookback_days = c.lookback_days
          /\ target_dte = c.target_dte
          /\ max_hold_days = c.max_hold_days
    /\ pc = "start"
    /\ data_len = 0
    /\ i = 0
    /\ row = NoRow
    /\ in_trade = FALSE
    /\ entry_day = None
    /\ entry_price = None
    /\ entry_sigma = None
    /\ hold_days = 0
    /\ total_signals = 0
    /\ trades = <<>>
    /\ pnl_calls = <<>>
    /\ opened = 0
    /\ closed = 0
    /\ result = NoResult
    /\ data = <<>>
    /\ trail = <<>>
    /\ first = NoFirst
    /\ runs = 1
    /\ priced = NoPrices
    /\ helper = NoHelper

\* the body of the call c on the series sr, from its first line to the
\* start of the loop
Begin(c, sr) ==
    LET valid == sr.n - sr.dropped
    IN  /\ fn' = c.fn
        /\ ticker' = c.ticker
        /\ strategy_name' = c.strategy_name
        /\ lookback_days' = c.lookback_days
        /\ target_dte' = c.target_dte
        /\ max_hold_days' = c.max_hold_days
        /\ data' = sr
        /\ trail' = <<>>
        /\ UNCHANGED helper
        /\ IF insufficient_bars(sr.n)
           THEN /\ pc' = "done"
                /\ result' = too_few_bars(c.fn, sr.n, c.ticker)
                /\ data_len' = sr.n
                /\ UNCHANGED <<i, row, LoopVars>>
           ELSE IF insufficient_rows(valid)
           THEN /\ pc' = "done"
                /\ result' = too_few_rows(c.fn, c.ticker)
                /\ data_len' = valid
                /\ UNCHANGED <<i, row, LoopVars>>
           ELSE /\ data_len' = window_len(valid, c.lookback_days)
                /\ SetLocals(InitialLocals)
                /\ i' = 1
                /\ row' = row_at(sr.rows, 0)
                /\ pc' = "loop"
                /\ result' = NoResult

\* the first call of the process
Enter ==
    /\ pc = "start"
    /\ \E sr \in SeriesOf(fn, lookback_days, TableRows(fn)) : Begin(CallArgs, sr)
    /\ UNCHANGED <<first, runs, priced>>

\* the position and the trade list, as they stand
Position(in_tr, price, hold, ts) ==
    [in_trade |-> in_tr, entry_price |-> price, hold_days |-> hold, trades |-> ts]

\* one iteration of the loop over the table
TableDay ==
    /\ pc = "loop"
    /\ i < data_len
    /\ LET r == row_at(data.rows, i)
           prev_row == row_at(data.rows, i - 1)
           call == legs(pnl_call(strategy_name, entry_price, r.Close,
                                 entry_sigma, target_dte, hold_days + 1))
           known == call \in DOMAIN priced
           values == IF fn = "backtest_strategy" /\ in_trade
                     THEN IF known THEN {priced[call]} ELSE TablePrices
                     ELSE BsOf(fn, FALSE)
       IN  \E bs \in values :
              /\ DayStep(r, prev_row, bs)
              /\ priced' = IF pnl_calls' # pnl_calls /\ ~known
                            THEN (call :> bs) @@ priced
                            ELSE priced
              /\ trail' = Append(trail, Position(in_trade', entry_price',
                                                 hold_days', trades'))
    /\ UNCHANGED <<Args, data_len, data, first, runs>>

\* the caller calls again, once the call before has returned; the first
\* call of the process is remembered
Again ==
    /\ pc = "done"
    /\ runs < MaxRuns
    /\ \E c \in RepeatCalls :
       \E sr \in SeriesOf(c.fn, c.lookback_days, TableRows(c.fn)) :
          Begin(c, sr)
    /\ first' = IF "none" \in DOMAIN first
                THEN [args |-> CallArgs, data |-> data, trail |-> trail,
                      result |-> result]
                ELSE first
    /\ runs' = runs + 1
    /\ UNCHANGED priced

NextRepeat == Enter \/ TableDay \/ Aggregate \/ Again

SpecRepeat == InitRepeat /\ [][NextRepeat]_vars

---------------------------------------------------------------------------
(* One call of backtest_strategy for COVERED_CALL on a whole table         *)

\* rows on which COVERED_CALL's clauses hold (HVol above the floor, and on
\* it), a row with RSI above 70, and a row with neither
CoveredCallRows ==
    {r \in StrategyRows :
        /\ r.EMA_9 = 3
        /\ <<r.Close, r.RSI, r.HVol>> \in
              {<<100, 50, 45>>, <<100, 50, 5>>, <<110, 71, 45>>, <<100, 35, 45>>}}

InitTable ==
    /\ fn = "backtest_strategy"
    /\ ticker \in Tickers
    /\ strategy_name = "COVERED_CALL"
    /\ lookback_days = MaxLookback
    /\ target_dte \in 0..MaxDte
    /\ max_hold_days = DefaultMaxHold
    /\ pc = "start"
    /\ data_len = 0
    /\ i = 0
    /\ row = NoRow
    /\ in_trade = FALSE
    /\ entry_day = None
    /\ entry_price = None
    /\ entry_sigma = None
    /\ hold_days = 0
    /\ total_signals = 0
    /\ trades = <<>>
    /\ pnl_calls = <<>>
    /\ opened = 0
    /\ closed = 0
    /\ result = NoResult
    /\ data = <<>>
    /\ trail = <<>>
    /\ first = NoFirst
    /\ runs = 1
    /\ priced = NoPrices
    /\ helper = NoHelper

EnterTable ==
    /\ pc = "start"
    /\ \E sr \in SeriesOf(fn, lookback_days, CoveredCallRows) : Begin(CallArgs, sr)
    /\ UNCHANGED <<first, runs, priced>>

NextTable == EnterTable \/ TableDay \/ Aggregate

SpecTable == InitTable /\ [][NextTable]_vars

---------------------------------------------------------------------------
(* One call of backtest_strategy on a table long enough for two trades     *)
(* held for different numbers of days                                      *)

InitHold ==
    /\ fn = "backtest_strategy"
    /\ ticker \in Tickers
    /\ strategy_name \in {"COVERED_CALL", "BULL_CALL_SPREAD"}
    /\ lookback_days = MaxLookback + 2
    /\ target_dte \in 1..MaxDte
    /\ max_hold_days = DefaultMaxHold
    /\ pc = "start"
    /\ data_len = 0
    /\ i = 0
    /\ row = NoRow
    /\ in_trade = FALSE
    /\ entry_day = None
    /\ entry_price = None
    /\ entry_sigma = None
    /\ hold_days = 0
    /\ total_signals = 0
    /\ trades = <<>>
    /\ pnl_calls = <<>>
    /\ opened = 0
    /\ closed = 0
    /\ result = NoResult
    /\ data = <<>>
    /\ trail = <<>>
    /\ first = NoFirst
    /\ runs = 1
    /\ priced = NoPrices
    /\ helper = NoHelper

NextHold == Enter \/ TableDay \/ Aggregate

SpecHold == InitHold /\ [][NextHold]_vars

---------------------------------------------------------------------------
(* backtest_strategy with the warm-up of each indicator column: the column *)
(* is NaN on the bars before its window is full, and has one value after.  *)

\* row j (from 0) of the frame once the indicator columns are added:
\* rolling(w) is NaN before bar w - 1; HVol rolls over the log returns, the
\* first of which is NaN, so it is NaN before bar w; ewm has no warm-up
indicator_row(j) ==
    [Close |-> 100, EMA_9 |-> 3, EMA_20 |-> 2, MACD_hist |-> 1,
     RSI |-> IF j < RsiPeriod - 1 THEN NaN ELSE 50,
     SMA_50 |-> IF j < SmaWindow - 1 THEN NaN ELSE 90,
     BB_width |-> IF j < BbWindow - 1 THEN NaN ELSE 3,
     VWAP |-> IF j < VwapWindow - 1 THEN NaN ELSE 90,
     HVol |-> IF j < HVolWindow THEN NaN ELSE 45,
     ATR |-> IF j < AtrPeriod - 1 THEN NaN ELSE 2]

indicator_table(n) == [j \in 1..n |-> indicator_row(j - 1)]

\* data.dropna(subset=[...])
dropna(tbl, subset) == SelectSeq(tbl, LAMBDA r : \A f \in subset : ~IsNaN(r[f]))

\* the subset backtest_strategy passes
StrategySubset == {"RSI", "EMA_9", "EMA_20", "HVol"}

\* if len(data) > lookback_days: data = data.iloc[-lookback_days:]
\* (-0 is 0: iloc[0:] is every row; a negative lookback_days drops the
\* first -lookback_days rows)
iloc_tail(tbl, lookback) ==
    IF Len(tbl) > lookback
    THEN IF lookback > 0
         THEN SubSeq(tbl, Len(tbl) - lookback + 1, Len(tbl))
         ELSE IF lookback = 0 THEN tbl
         ELSE SubSeq(tbl, 1 - lookback, Len(tbl))
    ELSE tbl

\* what n fetched bars come to at the start of the loop
fetched_series(n, lookback) ==
    LET valid == dropna(indicator_table(n), StrategySubset)
    IN  [n |-> n, dropped |-> n - Len(valid), rows |-> iloc_tail(valid, lookback)]

InitWarmup ==
    /\ fn = "backtest_strategy"
    /\ ticker \in Tickers
    /\ strategy_name \in OptionStrategies
    /\ lookback_days \in {MaxLookback, DefaultLookback}
    /\ target_dte = MaxDte
    /\ max_hold_days = DefaultMaxHold
    /\ pc = "start"
    /\ data_len = 0
    /\ i = 0
    /\ row = NoRow
    /\ in_trade = FALSE
    /\ entry_day = None
    /\ entry_price = None
    /\ entry_sigma = None
    /\ hold_days = 0
    /\ total_signals = 0
    /\ trades = <<>>
    /\ pnl_calls = <<>>
    /\ opened = 0
    /\ closed = 0
    /\ result = NoResult
    /\ data = <<>>
    /\ trail = <<>>
    /\ first = NoFirst
    /\ runs = 1
    /\ priced = NoPrices
    /\ helper = NoHelper

EnterFrame ==
    /\ pc = "start"
    /\ \E n \in {MinBars, MaxBars} : Begin(CallArgs, fetched_series(n, lookback_days))
    /\ UNCHANGED <<first, runs, priced>>

NextWarmup == EnterFrame \/ TableDay \/ Aggregate

SpecWarmup == InitWarmup /\ [][NextWarmup]_vars

---------------------------------------------------------------------------
(* Both backtests on a series whose last bars may close at zero.  The      *)
(* frame is the bars with their indicator columns before dropna: the bars  *)
(* before the last MaxLookback are the bars of indicator_row, the last     *)
(* ones are drawn.  HVol is recomputed from the closes.  The EMA columns   *)
(* are not recomputed, but a bar closing at zero pulls EMA_9 down by more  *)
(* than EMA_20, so EMA_9 is above EMA_20 on it only if it was the bar      *)
(* before.  RSI is NaN on a bar with no fall of the close in its window.   *)

\* the columns backtest_entry_exit adds, on the bars before the drawn ones
entry_exit_row(j) ==
    [Close |-> 100, EMA_9 |-> 3, EMA_20 |-> 2,
     RSI |-> IF j < RsiPeriod - 1 THEN NaN ELSE 50,
     VWAP |-> IF j < VwapWindow - 1 THEN NaN ELSE 105]

ZeroRows(f) ==
    IF f = "backtest_strategy"
    THEN [Close : {0, 100}, RSI : {30, 50}, EMA_9 : {3}, EMA_20 : {2},
          SMA_50 : {90}, BB_width : {3}, HVol : {45}, VWAP : {90},
          MACD_hist : {1}, ATR : {2}]
    ELSE [Close : {0, 100}, RSI : {34, NaN}, EMA_9 : {1, 3}, EMA_20 : {2},
          VWAP : {105}]

\* the frame of MaxBars bars ending with the bars t
zero_frame(f, t) ==
    LET old == MaxBars - Len(t)
    IN  [j \in 1..MaxBars |->
           IF j > old THEN t[j - old]
           ELSE IF f = "backtest_strategy" THEN indicator_row(j - 1)
           ELSE entry_exit_row(j - 1)]

\* ewm: EMA_9 above EMA_20 on a bar closing at zero only if it was before
ema_consistent(frame) ==
    \A j \in 2..Len(frame) :
        (frame[j].Close = 0 /\ frame[j].EMA_9 > frame[j].EMA_20) =>
            frame[j - 1].EMA_9 > frame[j - 1].EMA_20

\* _compute_rsi: avg_loss is 0, and RSI NaN, only on a bar with no fall of
\* the close among the 14 changes up to it
rsi_consistent(frame) ==
    \A j \in (RsiPeriod + 1)..Len(frame) :
        IsNaN(frame[j].RSI) =>
            \A k \in (j - RsiPeriod + 1)..j : frame[k].Close >= frame[k - 1].Close

\* np.log(close / close.shift(1)).rolling(20).std() on bar j (from 1): NaN
\* unless the 20 returns up to it are finite, each the log of a positive
\* ratio of two closes
historical_vol(frame, j) ==
    IF j <= HVolWindow THEN NaN
    ELSE IF \E k \in (j - HVolWindow)..j : frame[k].Close <= 0 THEN NaN
    ELSE frame[j].HVol

with_hvol(frame) ==
    [j \in 1..Len(frame) |-> [frame[j] EXCEPT !.HVol = historical_vol(frame, j)]]

\* the subset backtest_entry_exit passes to dropna
EntryExitSubset == {"RSI", "EMA_9", "EMA_20", "VWAP"}

\* what the frame comes to at the start of the loop
zero_series(f, t, lookback) ==
    LET frame == zero_frame(f, t)
        valid == IF f = "backtest_strategy"
                 THEN dropna(with_hvol(frame), StrategySubset)
                 ELSE dropna(frame, EntryExitSubset)
    IN  [n |-> Len(frame), dropped |-> Len(frame) - Len(valid),
         rows |-> iloc_tail(valid, lookback)]

InitZero ==
    /\ fn \in Backtests
    /\ ticker \in Tickers
    /\ lookback_days = MaxLookback
    /\ \/ /\ fn = "backtest_strategy"
          /\ strategy_name \in OptionStrategies
          /\ target_dte \in 1..MaxDte
          /\ max_hold_days = DefaultMaxHold
       \/ /\ fn = "backtest_entry_exit"
          /\ strategy_name = "ENTRY_EXIT_SIGNALS"
          /\ target_dte = DefaultDte
          /\ max_hold_days \in 1..MaxHold
    /\ pc = "start"
    /\ data_len = 0
    /\ i = 0
    /\ row = NoRow
    /\ in_trade = FALSE
    /\ entry_day = None
    /\ entry_price = None
    /\ entry_sigma = None
    /\ hold_days = 0
    /\ total_signals = 0
    /\ trades = <<>>
    /\ pnl_calls = <<>>
    /\ opened = 0
    /\ closed = 0
    /\ result = NoResult
    /\ data = <<>>
    /\ trail = <<>>
    /\ first = NoFirst
    /\ runs = 1
    /\ priced = NoPrices
    /\ helper = NoHelper

EnterZero ==
    /\ pc = "start"
    /\ \E t \in [1..MaxLookback -> ZeroRows(fn)] :
          /\ ema_consistent(zero_frame(fn, t))
          /\ rsi_consistent(zero_frame(fn, t))
          /\ Begin(CallArgs, zero_series(fn, t, lookback_days))
    /\ UNCHANGED <<first, runs, priced>>

NextZero == EnterZero \/ TableDay \/ Aggregate

SpecZero == InitZero /\ [][NextZero]_vars

---------------------------------------------------------------------------
(* Both backtests on a frame whose rows carry their date, for every kind   *)
(* of lookback_days: zero, one, fewer than the rows left, more             *)

\* the frame of n bars with the indicator columns, the index being the
\* number of the bar
dated_frame(f, n) ==
    [j \in 1..n |->
        [Date |-> j] @@ (IF f = "backtest_strategy"
                         THEN indicator_row(j - 1) ELSE entry_exit_row(j - 1))]

window_series(f, n, lookback) ==
    LET frame == dated_frame(f, n)
        valid == dropna(frame, IF f = "backtest_strategy"
                               THEN StrategySubset ELSE EntryExitSubset)
    IN  [n |-> n, dropped |-> n - Len(valid), rows |-> iloc_tail(valid, lookback)]

InitWindow ==
    /\ fn \in Backtests
    /\ ticker \in Tickers
    /\ lookback_days \in (0..MaxLookback) \cup {DefaultLookback}
    /\ \/ /\ fn = "backtest_strategy"
          /\ strategy_name \in {"COVERED_CALL", "LONG_STRADDLE"}
          /\ target_dte \in 1..MaxDte
          /\ max_hold_days = DefaultMaxHold
       \/ /\ fn = "backtest_entry_exit"
          /\ strategy_name = "ENTRY_EXIT_SIGNALS"
          /\ target_dte = DefaultDte
          /\ max_hold_days \in 1..MaxHold
    /\ pc = "start"
    /\ data_len = 0
    /\ i = 0
    /\ row = NoRow
    /\ in_trade = FALSE
    /\ entry_day = None
    /\ entry_price = None
    /\ entry_sigma = None
    /\ hold_days = 0
    /\ total_signals = 0
    /\ trades = <<>>
    /\ pnl_calls = <<>>
    /\ opened = 0
    /\ closed = 0
    /\ result = NoResult
    /\ data = <<>>
    /\ trail = <<>>
    /\ first = NoFirst
    /\ runs = 1
    /\ priced = NoPrices
    /\ helper = NoHelper

EnterWindow ==
    /\ pc = "start"
    /\ \E n \in {MinBars - 1, MinBars, MaxBars} :
          Begin(CallArgs, window_series(fn, n, lookback_days))
    /\ UNCHANGED <<first, runs, priced>>

NextWindow == EnterWindow \/ TableDay \/ Aggregate

SpecWindow == InitWindow /\ [][NextWindow]_vars

---------------------------------------------------------------------------
(* The code after the loop on its own, on trade lists of several records   *)

MaxTrades == 3       \* longest trade list

\* records as backtest_strategy appends them
StrategyTrades ==
    {[entry_price |-> e, exit_price |-> 100, hold_days |-> h,
      pnl |-> b.pnl, pnl_pct |-> b.pnl_pct] :
        e \in {100, 110}, h \in {1, 2}, b \in BsOutcomes}

\* records as backtest_entry_exit appends them
EntryExitTrades ==
    {[entry_price |-> e, exit_price |-> x, hold_days |-> h,
      pnl |-> x - e, pnl_pct |-> Frac((x - e) * 100, e),
      exit_reason |-> exit_reason(h = 1)] :
        e \in {100, 110}, x \in {100, 110}, h \in {1, 2}}

TradesOf(f) == IF f = "backtest_strategy" THEN StrategyTrades ELSE EntryExitTrades

\* the loop has ended with these trades
InitAggregate ==
    /\ fn \in Backtests
    /\ ticker \in Tickers
    /\ strategy_name = IF fn = "backtest_strategy"
                       THEN "COVERED_CALL" ELSE "ENTRY_EXIT_SIGNALS"
    /\ lookback_days = DefaultLookback
    /\ target_dte = DefaultDte
    /\ max_hold_days = DefaultMaxHold
    /\ pc = "loop"
    /\ data_len = MaxBars - HVolWindow
    /\ i = data_len
    /\ row \in {r \in RowsOf(fn) : r.Close = 100 /\ r.RSI = 35 /\ r.EMA_9 = 1}
    /\ in_trade = FALSE
    /\ entry_day = None
    /\ entry_price = None
    /\ entry_sigma = None
    /\ hold_days = 0
    /\ \E len \in 0..MaxTrades : trades \in [1..len -> TradesOf(fn)]
    /\ total_signals = Len(trades)
    /\ pnl_calls = <<>>
    /\ opened = Len(trades)
    /\ closed = Len(trades)
    /\ result = NoResult
    /\ data = <<>>
    /\ trail = <<>>
    /\ first = NoFirst
    /\ runs = 1
    /\ priced = NoPrices
    /\ helper = NoHelper

NextAggregate == Aggregate

SpecAggregate == InitAggregate /\ [][NextAggregate]_vars

---------------------------------------------------------------------------
(* Claims                                                                  *)

\* the Day step that ran to its end (no exception): the row read is row'
DayDone == pc = "loop" /\ pc' = "loop" /\ i' = i + 1

\* C1: in both backtests at most one position is open at any simulated
\* day: a position is opened only from FLAT, so the openings and the
\* closings alternate (every opening but the last is followed by exactly one
\* closing before the next).
C1_SinglePosition ==
    /\ opened - closed \in {0, 1}
    /\ in_trade <=> opened = closed + 1

\* a second position, opened after the first was closed
C1_Witness == opened = 2 /\ closed = 1 /\ in_trade /\ Len(trades) = 1

BacktestResultKeys ==
    {"ticker", "strategy", "period", "total_signals", "trades_taken", "wins",
     "losses", "win_rate", "avg_return_pct", "max_drawdown_pct",
     "profit_factor", "avg_holding_days", "note"}

IsErrorRecord(d) ==
    /\ {"error", "ticker"} \subseteq DOMAIN d
    /\ d.ticker = ticker

IsBacktestResult(d) ==
    /\ BacktestResultKeys \subseteq DOMAIN d
    /\ "error" \notin DOMAIN d
    /\ d.ticker = ticker

\* C2: no exception escapes backtest_strategy or backtest_entry_exit:
\* whatever the series, the strategy name and the parameter values, the call
\* returns an error record carrying 'error' and 'ticker', or a complete
\* BacktestResult record.
C2_AlwaysARecord ==
    pc = "done" => IsErrorRecord(result) \/ IsBacktestResult(result)

\* an exception raised in the middle of the loop, with a position open
C2_Witness ==
    /\ pc = "done" /\ in_trade /\ i >= 2
    /\ "error" \in DOMAIN result /\ result.error = <<"TypeError">>

IsInsufficient(d) ==
    /\ "error" \in DOMAIN d
    /\ Head(d.error) = "Insufficient data"
    /\ "ticker" \in DOMAIN d /\ d.ticker = ticker

\* C3: with an empty series or fewer than 60 bars, or with fewer than 20
\* rows left after the warm-up rows are dropped, both backtests return an
\* error record whose message begins 'Insufficient data', with the ticker,
\* and simulate no trade; with at least 60 bars and at least 20 rows left
\* they go on to the walk-forward loop (lookback_days being a number).
C3_InsufficientData ==
    [][/\ (pc = "fetched" /\ data_len < 60) =>
            pc' = "done" /\ IsInsufficient(result') /\ opened' = 0 /\ trades' = <<>>
       /\ (pc = "indicators" /\ data_len' < 20) =>
            pc' = "done" /\ IsInsufficient(result') /\ opened' = 0 /\ trades' = <<>>
       /\ (pc = "fetched" /\ data_len >= 60) => pc' = "indicators"
       /\ (pc = "indicators" /\ data_len' >= 20) => pc' = "lookback"
       /\ (pc = "lookback" /\ lookback_days # None) => pc' = "loop" /\ i' = 1
       /\ (pc' = "done" /\ IsInsufficient(result')) => pc \in {"fetched", "indicators"}
      ]_vars

\* 60 bars or more, and fewer than 20 rows after the warm-up
C3_Witness ==
    /\ pc = "done" /\ IsInsufficient(result) /\ Len(result.error) = 2
    /\ data_len = 19

\* C4: while FLAT, backtest_strategy opens a position on day i exactly when
\* the entry predicate holds on row i and HistVol(i) > 0.05; it records
\* entry_price = close(i), entry volatility = HistVol(i), hold_days = 0, and
\* these recorded values are the ones passed to the P&L simulation of the
\* trade.
C4_EntryRecorded ==
    [][(fn = "backtest_strategy" /\ DayDone) =>
         /\ ~in_trade =>
              /\ in_trade' <=> (check_entry_conditions(strategy_name, row', row)
                                /\ row'.HVol > 5)
              /\ in_trade' => /\ entry_price' = row'.Close
                              /\ entry_sigma' = row'.HVol
                              /\ hold_days' = 0
              /\ pnl_calls' = pnl_calls
         /\ in_trade =>
              /\ entry_price' = entry_price /\ entry_sigma' = entry_sigma
              /\ pnl_calls' # pnl_calls =>
                   /\ ~in_trade'
                   /\ pnl_calls' = Append(pnl_calls,
                        [strategy |-> strategy_name, entry_price |-> entry_price,
                         exit_price |-> row'.Close, sigma |-> entry_sigma,
                         target_dte |-> target_dte])
      ]_vars

\* a signal turned down by the volatility floor, then a trade opened and priced
C4_Witness ==
    /\ fn = "backtest_strategy" /\ total_signals = 2 /\ opened = 1
    /\ Len(pnl_calls) = 1 /\ pnl_calls[1].sigma = 45
    /\ pnl_calls[1].entry_price = 110 /\ pnl_calls[1].exit_price = 100

\* C5: in backtest_strategy with target_dte >= 1, hold_days grows by one
\* on every simulated day after the entry day, and the position is closed no
\* later than the day hold_days reaches target_dte: every TradeRecord has
\* hold_days <= target_dte.
C5_HoldWithinDte ==
    (fn = "backtest_strategy" /\ target_dte # None /\ target_dte >= 1) =>
        /\ in_trade => hold_days = (i - 1) - entry_day /\ hold_days < target_dte
        /\ \A k \in 1..Len(trades) : trades[k].hold_days <= target_dte

\* a trade closed by the holding limit on its second day
C5_Witness ==
    /\ fn = "backtest_strategy" /\ pc = "loop" /\ target_dte = 2
    /\ Len(trades) = 1 /\ trades[1].hold_days = 2

\* C6: in backtest_strategy an open BEAR_CALL_SPREAD position is closed on
\* any day after entry whose RSI is below 35, for every RSI value in
\* [0, 35), also while hold_days is less than target_dte.
C6_BearReversalExit ==
    [][(/\ fn = "backtest_strategy" /\ strategy_name = "BEAR_CALL_SPREAD"
        /\ DayDone /\ in_trade
        /\ row'.RSI >= 0 /\ row'.RSI < 35) => ~in_trade'
      ]_vars

\* C7: in backtest_strategy an open COVERED_CALL or BULL_CALL_SPREAD
\* position is closed on any day after entry whose RSI is above 70, also
\* while hold_days is less than target_dte (a number), and a TradeRecord is
\* emitted for it on that day.
C7_BullReversalExit ==
    [][(/\ fn = "backtest_strategy"
        /\ strategy_name \in {"COVERED_CALL", "BULL_CALL_SPREAD"}
        /\ DayDone /\ in_trade
        /\ row'.RSI > 70) =>
           /\ ~in_trade'
           /\ Len(trades') = Len(trades) + 1
           /\ trades'[Len(trades')].exit_price = row'.Close
           /\ trades'[Len(trades')].entry_price = entry_price
           /\ trades'[Len(trades')].hold_days = hold_days + 1
      ]_vars

\* a COVERED_CALL trade closed on its first day, one day short of target_dte
C7_Witness ==
    /\ fn = "backtest_strategy" /\ strategy_name = "COVERED_CALL"
    /\ target_dte = 2 /\ pc = "loop" /\ ~in_trade
    /\ Len(trades) = 1 /\ trades[1].hold_days = 1 /\ row.RSI = 71

\* the day of backtest_entry_exit, with the cross taken as `prev_le`
\* (<= on the previous day) or strictly
EntryCross(strict) ==
    /\ IF strict THEN row.EMA_9 < row.EMA_20 ELSE row.EMA_9 <= row.EMA_20
    /\ row'.EMA_9 > row'.EMA_20

EntryDay(strict) ==
    (fn = "backtest_entry_exit" /\ DayDone) =>
       /\ ~in_trade =>
            /\ in_trade' <=> (/\ row'.RSI < 35
                              /\ row'.Close < row'.VWAP
                              /\ EntryCross(strict))
            /\ in_trade' => entry_price' = row'.Close
            /\ trades' = trades
       /\ in_trade =>
            /\ entry_price' = entry_price
            /\ trades' # trades =>
                 /\ Len(trades') = Len(trades) + 1
                 /\ SubSeq(trades', 1, Len(trades)) = trades
                 /\ trades'[Len(trades')].entry_price = entry_price

\* C8 as stated: while FLAT, backtest_entry_exit opens a position on day i
\* exactly when RSI(i) < 35, close(i) < VWAP(i), EMA9(i-1) <= EMA20(i-1) and
\* EMA9(i) > EMA20(i) (equality on the previous day counting as a cross);
\* the recorded entry_price is close(i).
C8_AsStated == [][EntryDay(FALSE)]_vars

\* C8 amended: the same with EMA9(i-1) < EMA20(i-1): equality on the previous
\* day is no cross.  The entry_price recorded is close(i), it is kept while
\* the position is open and it is the entry_price of the TradeRecord, so
\* the first trade's entry_price is the close of the earliest such day.
C8_StrictCross == [][EntryDay(TRUE)]_vars

\* a first trade whose entry_price is the close of its entry day
C8_Witness ==
    /\ fn = "backtest_entry_exit" /\ pc = "loop"
    /\ Len(trades) = 1 /\ trades[1].entry_price = 100 /\ closed = 1

\* C9: in backtest_entry_exit an open position is closed on the first day
\* after entry on which (RSI > 65 and close > VWAP and EMA9 crosses below
\* EMA20) or hold_days >= max_hold_days; exit_reason is 'signal' exactly
\* when the exit signal held on the exit day and 'max_hold' otherwise; and
\* with max_hold_days >= 1 every trade has hold_days <= max_hold_days.
C9_ExitRule ==
    [][(fn = "backtest_entry_exit" /\ DayDone /\ in_trade
        /\ max_hold_days # None) =>
          LET sig == /\ row'.RSI > 65
                     /\ row'.Close > row'.VWAP
                     /\ row.EMA_9 > row.EMA_20
                     /\ row'.EMA_9 < row'.EMA_20
              last == trades'[Len(trades')]
          IN  /\ hold_days' = hold_days + 1
              /\ ~in_trade' <=> (sig \/ hold_days' >= max_hold_days)
              /\ ~in_trade' =>
                   /\ Len(trades') = Len(trades) + 1
                   /\ last.hold_days = hold_days'
                   /\ last.exit_price = row'.Close
                   /\ last.exit_reason = "signal" <=> sig
                   /\ last.exit_reason = "max_hold" <=> ~sig
                   /\ max_hold_days >= 1 => last.hold_days <= max_hold_days
              /\ in_trade' => trades' = trades
      ]_vars

\* a trade closed by the exit signal before the holding limit
C9_Witness ==
    /\ fn = "backtest_entry_exit" /\ max_hold_days = 2
    /\ Len(trades) = 1 /\ trades[1].exit_reason = "signal"
    /\ trades[1].hold_days = 1

\* the entry clauses of the specification's table, HistVol and BollWidth in
\* hundredths
TableEntry(strategy, r) ==
    CASE strategy = "COVERED_CALL" ->
           r.Close > r.SMA_50 /\ 40 <= r.RSI /\ r.RSI <= 60 /\ r.EMA_9 > r.EMA_20
      [] strategy = "CASH_SECURED_PUT" ->
           r.RSI < 40 /\ r.HVol > 30
      [] strategy = "BULL_CALL_SPREAD" ->
           r.EMA_9 > r.EMA_20 /\ r.RSI < 65 /\ r.Close > r.VWAP /\ r.MACD_hist > 0
      [] strategy = "BEAR_CALL_SPREAD" ->
           r.EMA_9 < r.EMA_20 /\ r.RSI > 65 /\ r.HVol > 40
      [] strategy = "IRON_CONDOR" ->
           /\ r.BB_width < 6 /\ 40 <= r.RSI /\ r.RSI <= 60
           /\ 40 <= r.HVol /\ r.HVol <= 70
      [] strategy = "PROTECTIVE_PUT" ->
           r.RSI > 60 /\ r.Close > r.SMA_50
      [] strategy = "LONG_STRADDLE" ->
           r.BB_width < 4 /\ r.HVol < 50

\* C10: for each of the seven options strategies and every row with all
\* fields defined, _check_entry_conditions returns true exactly when the
\* conjunction of the strategy's clauses in the table holds, the boundary
\* values in or out as written.
C10_EntryTable ==
    (fn = "_check_entry_conditions" /\ pc = "done") =>
        (result.value <=> TableEntry(strategy_name, row))

\* IRON_CONDOR accepted with RSI and HistVol on their upper bounds
C10_Witness ==
    /\ fn = "_check_entry_conditions" /\ pc = "done"
    /\ strategy_name = "IRON_CONDOR" /\ result.value
    /\ row.RSI = 60 /\ row.HVol = 70 /\ row.BB_width = 5

\* the fields the clauses of a strategy read, by the specification's table
Reads(strategy) ==
    CASE strategy = "COVERED_CALL" -> {"Close", "SMA_50", "RSI", "EMA_9", "EMA_20"}
      [] strategy = "CASH_SECURED_PUT" -> {"RSI", "HVol"}
      [] strategy = "BULL_CALL_SPREAD" ->
            {"EMA_9", "EMA_20", "RSI", "Close", "VWAP", "MACD_hist"}
      [] strategy = "BEAR_CALL_SPREAD" -> {"EMA_9", "EMA_20", "RSI", "HVol"}
      [] strategy = "IRON_CONDOR" -> {"BB_width", "RSI", "HVol"}
      [] strategy = "PROTECTIVE_PUT" -> {"RSI", "Close", "SMA_50"}
      [] strategy = "LONG_STRADDLE" -> {"BB_width", "HVol"}

\* the three fields the function requires of every row
CoreFields == {"RSI", "EMA_9", "EMA_20"}

SomeUndefined(r, fields) == \E k \in fields : ~Defined(Get(r, k))

\* a field of `fields` missing or NaN gives False; with all of them defined
\* the result is the table's, whatever else is missing
MissingRule(fields) ==
    (fn = "_check_entry_conditions" /\ pc = "done") =>
        /\ DOMAIN result = {"value"}
        /\ SomeUndefined(row, fields) => result.value = FALSE
        /\ ~SomeUndefined(row, fields) =>
              (result.value <=> TableEntry(strategy_name, row))

SameCall ==
    /\ "none" \notin DOMAIN first
    /\ pc \in {"loop", "done"}
    /\ first.args = CallArgs
    /\ first.data.n = data.n /\ first.data.dropped = data.dropped

\* the two tables have the same rows 0..k
AgreeTo(k) ==
    /\ k + 1 <= Len(data.rows) /\ k + 1 <= Len(first.data.rows)
    /\ \A j \in 1..(k + 1) : data.rows[j] = first.data.rows[j]

Completed == pc = "done" /\ i >= 1 /\ i >= data_len /\ IsBacktestResult(result)

\* C13: a position still open when the loop reaches the last bar is
\* discarded: it gives no TradeRecord and counts in none of trades_taken,
\* wins and losses, so the number of TradeRecords is the number of exit
\* transitions taken.
C13_OpenPositionDropped ==
    /\ Len(trades) = closed
    /\ Completed =>
          /\ result.trades_taken = closed
          /\ result.wins + result.losses = closed
          /\ in_trade => opened = closed + 1
          /\ closed = 0 => result.avg_return_pct = Zero /\ result.win_rate = Zero

\* one trade closed, a second position open at the last bar and dropped
C13_Witness ==
    /\ Completed /\ in_trade /\ opened = 2 /\ closed = 1
    /\ result.trades_taken = 1

\* the simulated days of the table on which COVERED_CALL's clauses hold with
\* HistVol above 0.05
EntryDays ==
    {k \in 1..(Len(data.rows) - 1) :
        /\ TableEntry("COVERED_CALL", data.rows[k + 1])
        /\ data.rows[k + 1].HVol > 5}

\* a COVERED_CALL call that ran to its end on a table with one such day
OneEntryDay ==
    /\ fn = "backtest_strategy" /\ strategy_name = "COVERED_CALL"
    /\ Completed /\ Cardinality(EntryDays) = 1

\* C14 as stated: on a series where COVERED_CALL's entry clause holds (with
\* HistVol > 0.05) on exactly one simulated day, backtest_strategy produces
\* exactly one TradeRecord, whose hold_days <= target_dte.
C14_AsStated ==
    OneEntryDay =>
        /\ Len(trades) = 1 /\ result.trades_taken = 1
        /\ trades[1].hold_days <= target_dte

\* C14 amended: at most one TradeRecord; exactly one when a simulated day k
\* after the entry day d has RSI > 70 or k - d >= target_dte, none when the
\* table ends before (the position is dropped); its hold_days is at most
\* target_dte when target_dte >= 1, and 1 when target_dte = 0.
C14_OneEntryDay ==
    OneEntryDay =>
        LET d == CHOOSE k \in EntryDays : TRUE
            exits == {k \in (d + 1)..(Len(data.rows) - 1) :
                        k - d >= target_dte \/ data.rows[k + 1].RSI > 70}
        IN  /\ Len(trades) <= 1 /\ result.trades_taken = Len(trades)
            /\ Len(trades) = 1 <=> exits # {}
            /\ Len(trades) = 1 =>
                  /\ target_dte >= 1 => trades[1].hold_days <= target_dte
                  /\ target_dte = 0 => trades[1].hold_days = 1
                  /\ trades[1].hold_days = SetMin(exits) - d

\* the one entry on day 1 of three, the trade closed on day 3 by target_dte = 2
C14_Witness ==
    /\ OneEntryDay /\ target_dte = 2 /\ EntryDays = {1}
    /\ Len(trades) = 1 /\ trades[1].hold_days = 2 /\ total_signals = 1

\* the loop ran to its end and the call returned
Finished == pc = "done" /\ i >= 1 /\ i >= data_len

\* a result that is no error, with the statistics zero and the note of a run
\* in which nothing triggered
NothingTriggered(d) ==
    /\ IsBacktestResult(d)
    /\ d.trades_taken = 0 /\ d.wins = 0 /\ d.losses = 0
    /\ d.win_rate = Zero /\ d.avg_return_pct = Zero
    /\ d.max_drawdown_pct = Zero /\ d.profit_factor = Zero
    /\ d.avg_holding_days = Zero
    /\ d.note \in {"No trades triggered during lookback period",
                    "No entry signals triggered during lookback period"}

\* C15 as stated: a backtest that completes with an empty trade list returns
\* a non-error BacktestResult in which every counter and statistic,
\* total_signals among them, is zero and the note says nothing triggered.
C15_AsStated ==
    (Finished /\ trades = <<>>) =>
        NothingTriggered(result) /\ result.total_signals = 0

\* C15 amended: the same for every counter and statistic but total_signals,
\* which is zero in backtest_entry_exit and in backtest_strategy is the
\* number of signals counted, zero or not.
C15_NoTrades ==
    (Finished /\ trades = <<>>) =>
        /\ NothingTriggered(result)
        /\ result.total_signals =
              IF fn = "backtest_strategy" THEN total_signals ELSE 0

\* no trade, two signals: one turned down by the volatility floor, one that
\* opened the position still open at the last bar
C15_Witness ==
    /\ Finished /\ trades = <<>> /\ fn = "backtest_strategy"
    /\ result.total_signals = 2 /\ opened = 1 /\ in_trade

\* a result computed from one trade or more
Reported == Finished /\ trades # <<>> /\ IsBacktestResult(result)

NumWins == Cardinality({k \in 1..Len(trades) : trades[k].pnl > 0})
NumLosses == Cardinality({k \in 1..Len(trades) : trades[k].pnl <= 0})

\* the rational q (den > 0) is n / d
Equals(q, n, d) == q.den > 0 /\ q.num * d = n * q.den

\* C16: in every BacktestResult with at least one trade, win_rate is
\* wins / trades_taken exactly, wins + losses = trades_taken, a trade is a
\* win exactly when its pnl > 0, and a trade with pnl = 0 counts as a loss.
C16_WinRate ==
    Reported =>
        /\ result.trades_taken = Len(trades)
        /\ result.wins = NumWins
        /\ result.losses = NumLosses
        /\ result.wins + result.losses = result.trades_taken
        /\ Equals(result.win_rate, result.wins, result.trades_taken)

\* three trades, one of pnl 0 counted with the losses: win_rate is 1/3
C16_Witness ==
    /\ Reported /\ Len(trades) = 3
    /\ trades[1].pnl > 0 /\ trades[2].pnl = 0 /\ trades[3].pnl < 0
    /\ result.wins = 1 /\ result.losses = 2
    /\ result.win_rate = [num |-> 1, den |-> 3]

GrossProfit == SumInt(SelectSeq(trades, LAMBDA t : t.pnl > 0), "pnl")
GrossLoss == Abs(SumInt(SelectSeq(trades, LAMBDA t : t.pnl <= 0), "pnl"))

\* C17: with at least one trade, profit_factor is gross_profit / gross_loss
\* when gross_loss > 0, and is the +infinity sentinel exactly when gross_loss
\* is zero and gross_profit > 0.
C17_ProfitFactor ==
    Reported =>
        /\ GrossLoss > 0 => Equals(result.profit_factor, GrossProfit, GrossLoss)
        /\ result.profit_factor = Inf <=> (GrossLoss = 0 /\ GrossProfit > 0)

\* the cumulative pnl after trade k
PnlThrough(k) == SumInt(SubSeq(trades, 1, k), "pnl")

\* the deepest fall of the cumulative pnl from an earlier peak, as trough
\* minus peak: zero or negative
Decline ==
    SetMin({PnlThrough(p[2]) - PnlThrough(p[1]) :
              p \in {q \in (1..Len(trades)) \X (1..Len(trades)) : q[1] <= q[2]}})

\* the rational q is n / d (d > 0) rounded to one decimal
Tenth(q, n, d) ==
    /\ q.den \in {1, 2, 5, 10}
    /\ 2 * Abs(10 * n - q.num * (10 \div q.den) * d) <= d

\* C18 as stated: max_drawdown_pct is the largest peak-to-trough decline of
\* the running cumulative pnl over the trades in order, divided by the first
\* trade's entry_price and multiplied by 100.
C18_AsStated ==
    Reported =>
        Equals(result.max_drawdown_pct, Decline * 100, trades[1].entry_price)

\* C18 amended: max_drawdown_pct is that quotient (trough minus peak, so
\* zero or negative) rounded to one decimal.
C18_Drawdown ==
    Reported =>
        Tenth(result.max_drawdown_pct, Decline * 100, trades[1].entry_price)

\* a gain, a loss of 3 and a gain on a first entry at 110: -2.727 is
\* reported as -2.7
C18_Witness ==
    /\ Reported /\ Len(trades) = 3 /\ trades[1].entry_price = 110
    /\ trades[1].pnl = 4 /\ trades[2].pnl = -3 /\ trades[3].pnl = 4
    /\ result.max_drawdown_pct = [num |-> -27, den |-> 10]

\* C19: both backtests are deterministic and keep nothing from one call to
\* the next: a call with the arguments and the series of the first call of
\* the process returns what the first call returned, whatever calls were
\* made in between (so any two calls with the same arguments and series
\* return the same).
C19_SameResult ==
    (SameCall /\ pc = "done" /\ first.data = data) => result = first.result

\* the third call repeats the first, a backtest_entry_exit with one trade;
\* the call in between was a backtest_strategy that priced a trade
C19_Witness ==
    /\ SameCall /\ pc = "done" /\ first.data = data /\ runs = 3
    /\ fn = "backtest_entry_exit" /\ DOMAIN priced # {}
    /\ "trades_taken" \in DOMAIN result /\ result.trades_taken = 1

IndicatorFields ==
    {"RSI", "EMA_9", "EMA_20", "SMA_50", "MACD_hist", "BB_width", "VWAP",
     "HVol", "ATR"}

\* C20: every row the walk-forward loop of backtest_strategy visits has all
\* its indicator fields defined (RSI, EMA9, EMA20, SMA50, MACD histogram,
\* Bollinger width, rolling VWAP, HistVol, ATR): a row with one of them NaN
\* is removed before the simulation begins.
C20_AllDefined ==
    (fn = "backtest_strategy" /\ pc \in {"loop", "done"} /\ i >= 2) =>
        \A f \in IndicatorFields : f \in DOMAIN row /\ ~IsNaN(row[f])

\* the arguments are degenerate: one of T, sigma, S, K is zero or negative
Degenerate ==
    helper.T <= 0 \/ helper.sigma <= 0 \/ helper.S <= 0 \/ helper.K <= 0

\* the larger of two integers
Larger(a, b) == IF a >= b THEN a ELSE b

\* C21: for any degenerate input (T <= 0 or sigma <= 0 or S <= 0 or K <= 0)
\* _bs_price returns exactly the intrinsic value, max(0, S-K) for a call and
\* max(0, K-S) for a put, which is never negative, and it never raises.
C21_Intrinsic ==
    (fn = "_bs_price" /\ pc = "done" /\ Degenerate) =>
        /\ DOMAIN result = {"value"}
        /\ helper.option_type = "call" =>
              result.value = Larger(0, helper.S - helper.K)
        /\ helper.option_type = "put" =>
              result.value = Larger(0, helper.K - helper.S)
        /\ result.value >= 0

\* a put with a negative strike and an out-of-the-money call at expiry: the
\* value is floored at zero
C21_Witness ==
    /\ fn = "_bs_price" /\ pc = "done" /\ result.value = 0
    /\ \/ helper.option_type = "put" /\ helper.K = -10 /\ helper.S = 100
          /\ helper.T = 30 /\ helper.sigma = 45
       \/ helper.option_type = "call" /\ helper.K = 110 /\ helper.S = 100
          /\ helper.T = 0 /\ helper.sigma = 45

\* max(1/365, 0.4 * target_dte / 365)
FortyPercent(dte) ==
    IF 4 * dte > 10 THEN Frac(4 * dte, 3650) ELSE Frac(1, 365)

C24_BacktestOnly ==
    (fn = "run" /\ helper.backtest_only) =>
        helper.sent = 0 /\ helper.summarized = 0

\* a backtest-only run with output_format "json" over two tickers that ran
\* the backtests for both and returned
C24_Witness ==
    /\ fn = "run" /\ pc = "done" /\ helper.backtest_only
    /\ Len(helper.summaries) = 2 /\ helper.backtested = 2
    /\ helper.summaries[1].summary = "GPT summary skipped"
    /\ helper.sent = 0
    /\ result.value = "json"

\* C25: every TradeRecord of either backtest has hold_days >= 1: a position
\* is never opened and closed on the same day, and the day on which a
\* position is closed is never itself an entry day even if the entry
\* predicate holds on it, so the earliest re-entry is the following
\* simulated day.
C25_HoldAtLeastOne ==
    [][DayDone =>
         /\ \A k \in 1..Len(trades') : trades'[k].hold_days >= 1
         /\ closed' # closed => /\ in_trade /\ ~in_trade'
                                /\ opened' = opened
                                /\ hold_days' >= 1
         /\ opened' # opened => /\ ~in_trade /\ in_trade'
                                /\ closed' = closed /\ trades' = trades
      ]_vars

\* a trade closed after one day, on a day whose row satisfies the entry
\* predicate, and no position opened on that day
C25_Witness ==
    /\ fn = "backtest_strategy" /\ pc = "loop"
    /\ closed = 1 /\ opened = 1 /\ ~in_trade
    /\ Len(trades) = 1 /\ trades[1].hold_days = 1
    /\ check_entry_conditions(strategy_name, row, row) /\ row.HVol > 5

\* the strategies for which the code has no reversal rule
NoReversal ==
    {"CASH_SECURED_PUT", "IRON_CONDOR", "PROTECTIVE_PUT", "LONG_STRADDLE"}

\* C26: for the strategies without a reversal rule in the code
\* (CASH_SECURED_PUT, IRON_CONDOR, PROTECTIVE_PUT, LONG_STRADDLE) and
\* target_dte >= 1, the only exit is the holding limit: a position is closed
\* on the day hold_days reaches target_dte and on no other, and every
\* TradeRecord of backtest_strategy has hold_days exactly equal to
\* target_dte, whatever the RSI does while the position is open.
C26_OnlyHoldingLimit ==
    [][(/\ fn = "backtest_strategy" /\ strategy_name \in NoReversal
        /\ target_dte # None /\ target_dte >= 1 /\ DayDone) =>
          /\ in_trade => (~in_trade' <=> hold_days + 1 = target_dte)
          /\ \A k \in 1..Len(trades') : trades'[k].hold_days = target_dte
      ]_vars

\* a PROTECTIVE_PUT position still open after a day with RSI above 70, one
\* day short of target_dte
C26_Witness ==
    /\ fn = "backtest_strategy" /\ strategy_name = "PROTECTIVE_PUT"
    /\ target_dte = 2 /\ pc = "loop" /\ in_trade /\ hold_days = 1
    /\ row.RSI = 71 /\ i = entry_day + 2

\* C27: in every non-error result of backtest_strategy trades_taken <=
\* total_signals: total_signals counts exactly the simulated days on which
\* the entry predicate held while FLAT (the days rejected by the
\* HistVol > 0.05 floor and the entry of a position later discarded at the
\* end of the window included) and never a day while a position is open;
\* in backtest_entry_exit total_signals always equals trades_taken.
C27_SignalsCounted ==
    [][/\ (fn = "backtest_strategy" /\ DayDone) =>
            total_signals' = total_signals +
                (IF ~in_trade /\ check_entry_conditions(strategy_name, row', row)
                 THEN 1 ELSE 0)
       /\ (pc' = "done" /\ IsBacktestResult(result')) =>
            /\ fn = "backtest_strategy" =>
                  /\ result'.total_signals = total_signals'
                  /\ result'.trades_taken <= result'.total_signals
            /\ fn = "backtest_entry_exit" =>
                  result'.total_signals = result'.trades_taken
      ]_vars

\* two signals, the first rejected by the volatility floor, and one trade
C27_Witness ==
    /\ Completed /\ fn = "backtest_strategy"
    /\ result.total_signals = 2 /\ opened = 1 /\ result.trades_taken = 1

\* the loop of a call with a number for lookback_days has started
LoopStarted ==
    fn \in Backtests /\ pc \in {"loop", "done"} /\ i >= 1 /\ lookback_days # None

\* C28: for every lookback_days >= 0, the walk-forward loop of either
\* backtest runs over at most lookback_days rows: when more rows remain
\* after warm-up removal, exactly the most recent lookback_days rows are
\* kept, and the first kept row serves only as the previous row and is
\* never an entry or exit day.
C28_LookbackWindow ==
    (LoopStarted /\ lookback_days >= 0) =>
        /\ data_len = Len(data.rows)
        /\ data_len <= lookback_days
        /\ data.n - data.dropped > lookback_days =>
              /\ data_len = lookback_days
              /\ \A k \in 1..data_len :
                    data.rows[k].Date = data.n - lookback_days + k
        /\ Len(trail) = i - 1
        /\ \A k \in 1..Len(trail) : data.rows[k + 1].Date > data.rows[1].Date
        /\ (fn = "backtest_strategy" /\ in_trade) => entry_day >= 1

\* C29: backtest_strategy called with a strategy name outside the seven
\* options strategies on a sufficient series never opens a position, and
\* returns the zero-trade result with total_signals = 0 and the note
\* "No trades triggered during lookback period", not an error record.
C29_UnknownStrategy ==
    (fn = "backtest_strategy" /\ strategy_name \notin OptionStrategies) =>
        /\ ~in_trade
        /\ opened = 0
        /\ total_signals = 0
        /\ trades = <<>>
        /\ Finished =>
              /\ "error" \notin DOMAIN result
              /\ result.total_signals = 0
              /\ result.trades_taken = 0
              /\ result.note = "No trades triggered during lookback period"
              /\ result = NoTrades(fn, ticker, strategy_name, data_len, 0)

\* a call with the misspelt name has walked over rows on which COVERED_CALL
\* would enter, and returned
C29_Witness ==
    /\ fn = "backtest_strategy"
    /\ strategy_name = "COVERED_CAL"
    /\ Finished
    /\ data_len >= 3
    /\ covered_call_entry(row)
    /\ result.trades_taken = 0

\* C30: with a positive first entry_price max_drawdown_pct is <= 0 in every
\* result, and the drawdown is measured against the running maximum of the
\* cumulative P&L taken after each trade, not against the zero starting
\* balance: a drawdown is reported only when the cumulative P&L after some
\* trade is below the cumulative P&L after an earlier trade, the first
\* trade's own loss is never part of it, and a run with a single losing
\* trade reports max_drawdown_pct = 0.
C30_DrawdownAfterTrades ==
    (Reported /\ trades[1].entry_price > 0) =>
        /\ result.max_drawdown_pct.num <= 0
        /\ result.max_drawdown_pct.num < 0 =>
              \E j \in 1..Len(trades), k \in 1..Len(trades) :
                  j < k /\ CumPnl(trades, k) < CumPnl(trades, j)
        /\ (\A k \in 2..Len(trades) : trades[k].pnl >= 0) =>
              result.max_drawdown_pct = Zero
        /\ Len(trades) = 1 => result.max_drawdown_pct = Zero

\* a single losing trade, reported with a drawdown of zero
C30_Witness ==
    /\ Reported /\ Len(trades) = 1
    /\ trades[1].entry_price > 0 /\ trades[1].pnl < 0
    /\ result.losses = 1
    /\ result.max_drawdown_pct = Zero

=============================================================================
